---------------------------- MODULE Spec2Model ----------------------------
(***************************************************************************)
(* Verification model of the "Spatial Color Slices" installation:          *)
(*   - HandTracker.predictWebcam  (signal extraction, publication)         *)
(*   - ColorSlices useFrame       (mood, springs, palette, material)       *)
(*   - AudioManager mode effect and useFrame (analysis / decay)            *)
(*                                                                         *)
(* Numbers.  The program computes in IEEE doubles; the model computes in   *)
(* fixed point.  A quantity q of the program is the integer q * One, and a *)
(* product with a decimal literal of the source is rounded toward zero to  *)
(* a whole unit (MulRat).  Inputs are chosen on grids where the extraction *)
(* formulas are exact.                                                     *)
(***************************************************************************)
EXTENDS Integers, Sequences, FiniteSets, TLC

VARIABLES
    \* ---- App ----
    mounted,            \* the App tree is mounted (its effects have not been cleaned up for removal)
    \* ---- HandTracker ----
    status,             \* the status text of HandTracker (useState)
    trackers,           \* one record per run of the HandTracker effect (closure variables)
    srcObject,          \* videoRef.current.srcObject: index into cameraStreams, 0 = none
    onloadeddata,       \* videoRef.current.onloadeddata: index of the run that installed it, 0 = none
    cameraStreams,      \* the camera streams granted so far: owner run and state of the tracks
    videoTime,          \* videoRef.current.currentTime
    lastVideoTime,      \* lastVideoTimeRef.current
    handResults,        \* result of handLandmarker.detectForVideo in the last cycle
    faceResults,        \* result of faceLandmarker.detectForVideo in the last cycle
    inputData,          \* App.inputDataRef.current (the published input frame)
    detectedAt,         \* history: the <<stream, video time>> pairs the detectors were invoked at
    repeatedTime,       \* history: the detectors were invoked at a video time value used before
    warnings,           \* number of "Tracking frame error" warnings logged (saturating)
    \* ---- AudioManager ----
    audioMode,          \* App state 'OFF' | 'MIC' | 'THEREMIN'
    ctxState,           \* listener.context.state
    audioEffects,       \* one record per run of the mode effect (mode, active flag, await position)
    nodeRefs,           \* oscBassRef .. micSourceRef, micStreamRef: indices, 0 = null
    thereminNodes,      \* the oscillator/gain sets created so far
    micStreams,         \* the microphone streams granted so far
    dataArray,          \* dataArrayRef.current (Uint8Array of frequency bins)
    audioData,          \* audioDataRef.current {low, high, vol}
    audioFrame,         \* number of AudioManager frames run (saturating)
    retargets,          \* the last setTargetAtTime call made on each theremin parameter
    \* ---- ColorSlices ----
    springs,            \* the four SpringValue objects
    targetPalette,      \* targetPaletteRef.current (name of a PALETTES entry)
    currentPalette,     \* currentPaletteRef.current (5 colours)
    instanceColor,      \* colours written with setColorAt, per instance
    material,           \* ior, chromaticAberration, emissive of the material
    frame,              \* number of ColorSlices frames run (saturating)
    instanceMatrix,     \* transforms written with setMatrixAt, per instance
    \* ---- Experience, Cursor, ReactiveLighting ----
    handsDataProxy,     \* Experience.handsDataProxy.current
    cursors,            \* mesh and light of the two BoundCursor components
    lights,             \* target refs of ReactiveLighting, the two spots and the ambient light
    renderOrder,        \* the order in which the render loop calls the useFrame callbacks
    renderPending,      \* the callbacks the current render frame has still to call
    handsRead           \* history: the hands objects each callback read in the current render frame

lifeVars    == <<status, trackers, srcObject, onloadeddata, cameraStreams>>
detectVars  == <<lastVideoTime, handResults, faceResults, inputData, detectedAt, repeatedTime,
                 warnings>>
trackerVars == <<status, trackers, srcObject, onloadeddata, cameraStreams, videoTime,
                 lastVideoTime, handResults, faceResults, inputData, detectedAt, repeatedTime,
                 warnings>>
nodeVars    == <<ctxState, audioEffects, nodeRefs, thereminNodes, micStreams>>
audioVars   == <<audioMode, ctxState, audioEffects, nodeRefs, thereminNodes, micStreams,
                 dataArray, audioData, audioFrame, retargets>>
colorVars   == <<springs, targetPalette, currentPalette, instanceColor, material, frame,
                 instanceMatrix>>
sliceVars   == <<springs, targetPalette, currentPalette, instanceColor, material, frame,
                 instanceMatrix, handsDataProxy, cursors, lights, renderOrder, renderPending,
                 handsRead>>
vars        == <<mounted, status, trackers, srcObject, onloadeddata, cameraStreams, videoTime,
                 lastVideoTime, handResults, faceResults, inputData, detectedAt, repeatedTime,
                 warnings,
                 audioMode, ctxState, audioEffects, nodeRefs, thereminNodes, micStreams,
                 dataArray, audioData, audioFrame, retargets,
                 springs, targetPalette, currentPalette, instanceColor, material, frame,
                 instanceMatrix, handsDataProxy, cursors, lights, renderOrder, renderPending,
                 handsRead>>

---------------------------------------------------------------------------
(* Fixed-point arithmetic *)

\* The integer that stands for the number 1.0 (resolution 1e-4).
One == 100 * 100

Min(a, b) == IF a < b THEN a ELSE b
Max(a, b) == IF a > b THEN a ELSE b
Abs(a)    == IF a < 0 THEN -a ELSE a

\* The counters of the model count up to a cap and stay there.
Tick(n, cap) == IF n < cap THEN n + 1 ELSE n

\* a * (num/den), rounded toward zero to a whole unit.  The rounding of the
\* model disturbs a value by less than one unit (1e-4) per product.
MulRat(a, num, den) ==
    IF a >= 0 THEN (a * num) \div den
              ELSE -(((-a) * num) \div den)

\* Math.sqrt on the grid: the largest r with r*r <= n (exact on squares).
RECURSIVE SqrtSearch(_, _, _)
SqrtSearch(n, lo, hi) ==
    IF lo >= hi THEN lo
    ELSE LET mid == (lo + hi + 1) \div 2
         IN  IF mid * mid <= n THEN SqrtSearch(n, mid, hi)
                               ELSE SqrtSearch(n, lo, mid - 1)
ISqrt(n) == SqrtSearch(n, 0, Min(n, 4 * One))

---------------------------------------------------------------------------
(* HandTracker: signal extraction                                          *)

\* pinch = clamp((distance - 0.02) / 0.15, 0, 1)
PinchOffset == 200
PinchRange  == 1500

\* Mutant of Pinch: the upper clamp is dropped.
PinchNoUpperClamp(distance) ==
    Max(((distance - PinchOffset) * One) \div PinchRange, 0)

Pinch(distance) ==
    Min(Max(((distance - PinchOffset) * One) \div PinchRange, 0), One)

Distance(indexTip, thumbTip) ==
    LET dx == indexTip.x - thumbTip.x
        dy == indexTip.y - thumbTip.y
    IN  ISqrt(dx * dx + dy * dy)

\* x = (1 - indexTip.x) * 2 - 1 ;  y = -(indexTip.y * 2 - 1)
MirrorX(rawX) == (One - rawX) * 2 - One
FlipY(rawY)   == -(rawY * 2 - One)

AbsentHand == [present |-> FALSE, x |-> 0, y |-> 0, pinch |-> 0]

HandOf(h) ==
    [present |-> TRUE,
     x       |-> MirrorX(h.indexTip.x),
     y       |-> FlipY(h.indexTip.y),
     pinch   |-> Pinch(Distance(h.indexTip, h.thumbTip))]

\* Mutant of AssignHand: a hand that is not "Right" goes to the left slot, and
\* a slot that is already filled is kept (first wins).
AssignHandFirstWins(hands, h) ==
    IF h.handedness = "Left"
    THEN IF hands.left.present THEN hands ELSE [hands EXCEPT !.left = HandOf(h)]
    ELSE IF hands.right.present THEN hands ELSE [hands EXCEPT !.right = HandOf(h)]

\* One iteration of the hand loop.
AssignHand(hands, h) ==
    IF h.handedness = "Left" THEN [hands EXCEPT !.left  = HandOf(h)]
                             ELSE [hands EXCEPT !.right = HandOf(h)]

RECURSIVE HandLoop(_, _, _)
HandLoop(hands, results, i) ==
    IF i > Len(results) THEN hands
    ELSE HandLoop(AssignHand(hands, results[i]), results, i + 1)

ExtractHands(results) ==
    HandLoop([left |-> AbsentHand, right |-> AbsentHand], results, 1)

BlendshapeNames ==
    {"mouthSmileLeft", "mouthSmileRight", "jawOpen", "browDownLeft", "browDownRight"}

\* Mutant of GetScore: a missing category is read without the fallback.
GetScoreNoFallback(shapes, name) ==
    IF name \in DOMAIN shapes THEN shapes[name] ELSE -1

\* shapes.find(s => s.categoryName === name)?.score || 0
GetScore(shapes, name) ==
    IF name \in DOMAIN shapes THEN shapes[name] ELSE 0

AbsentFace == [present |-> FALSE, smile |-> 0, mouthOpen |-> 0, browDown |-> 0]

ExtractFace(blendshapes) ==
    IF Len(blendshapes) > 0
    THEN LET shapes == blendshapes[1]
         IN  [present   |-> TRUE,
              smile     |-> (GetScore(shapes, "mouthSmileLeft")
                              + GetScore(shapes, "mouthSmileRight")) \div 2,
              mouthOpen |-> GetScore(shapes, "jawOpen"),
              browDown  |-> (GetScore(shapes, "browDownLeft")
                              + GetScore(shapes, "browDownRight")) \div 2]
    ELSE AbsentFace

NewData(hr, fr) == [hands |-> ExtractHands(hr), face |-> ExtractFace(fr)]

InitialInputData ==
    [hands |-> [left |-> AbsentHand, right |-> AbsentHand], face |-> AbsentFace]


---------------------------------------------------------------------------
(* HandTracker: what the detectors can report (bounded)                     *)

MaxVideoTime == 2

Pt(px, py) == [x |-> px, y |-> py]

\* Index-tip positions (normalised image coordinates * One).  MediaPipe
\* extrapolates landmarks of a hand that is partly out of frame, so a
\* coordinate below 0 or above 1 is a value the detector reports.
IndexTips == {Pt(5000, 0), Pt(0, 10000), Pt(10000, 5000), Pt(12000, -2000)}

\* indexTip - thumbTip, with lengths 0, 0.01, 0.02, 0.05, 0.095, 0.17, 0.2
TipOffsets == {Pt(0, 0), Pt(0, 100), Pt(0, 200), Pt(-300, 400), Pt(570, 760),
               Pt(1020, -1360), Pt(1200, 1600)}

Hand(label, tip, off) ==
    [handedness |-> label, indexTip |-> tip,
     thumbTip |-> Pt(tip.x - off.x, tip.y - off.y)]

DetectedHands ==
    {Hand(l, t, o) : l \in {"Left", "Right"}, t \in IndexTips, o \in TipOffsets}

\* The hands used when two hands are detected in one cycle.
PairHands ==
    {Hand(l, t, Pt(570, 760)) : l \in {"Left", "Right"},
                                t \in {Pt(5000, 0), Pt(10000, 5000)}}

HandResultsSet ==
    {<<>>} \cup {<<h>> : h \in DetectedHands}
           \cup {<<h1, h2>> : h1 \in PairHands, h2 \in PairHands}

Shapes(sl, sr, jaw, bl, br) ==
    [n \in BlendshapeNames |->
        CASE n = "mouthSmileLeft"  -> sl
          [] n = "mouthSmileRight" -> sr
          [] n = "jawOpen"         -> jaw
          [] n = "browDownLeft"    -> bl
          [] n = "browDownRight"   -> br]

Restrict(f, S) == [n \in S |-> f[n]]

\* Blendshape tables: complete ones, and ones with categories missing.
BlendshapeTables ==
    { Shapes(0, 0, 0, 0, 0),
      Shapes(10000, 0, 0, 0, 0),
      Shapes(6000, 6000, 6000, 6000, 6000),
      Shapes(4000, 4000, 2000, 3000, 3000),
      Shapes(4000, 4000, 2000, 6000, 2000),
      Shapes(2000, 2000, 3000, 8000, 8000),
      Restrict(Shapes(0, 0, 3000, 0, 0), {"jawOpen"}),
      Restrict(Shapes(0, 10000, 0, 8000, 0), {"mouthSmileRight", "browDownLeft"}),
      Restrict(Shapes(0, 0, 0, 0, 0), {}) }

FaceResultsSet == {<<>>} \cup {<<t>> : t \in BlendshapeTables}

\* What one detection cycle returns: every hand result without a face, and
\* every face result with no hand, one hand and two hands.
DetectionResults ==
    {<<hr, <<>>>> : hr \in HandResultsSet}
      \cup {<<hr, fr>> :
              hr \in {<<>>,
                      <<Hand("Left", Pt(5000, 0), Pt(0, 0))>>,
                      <<Hand("Right", Pt(10000, 5000), Pt(570, 760)),
                        Hand("Left", Pt(5000, 0), Pt(570, 760))>>},
              fr \in FaceResultsSet}

---------------------------------------------------------------------------
(* HandTracker: the effect, its asynchronous setup and its cleanup          *)

\* The closure of one run of the effect: active, handLandmarker,
\* faceLandmarker, whether a requestAnimationFrame tick is pending
\* (animationFrameId), and the position of setup().
NewTracker ==
    [active |-> TRUE, stage |-> "vision",
     handLandmarker |-> "null", faceLandmarker |-> "null", raf |-> FALSE]

TrackerIds == 1..Len(trackers)

\* setStatus: React drops a state update of a component that is gone.
SetStatus(text) == IF mounted THEN text ELSE status

\* landmarker.close() behind `if (handLandmarker)`.
Close(landmarker) == IF landmarker = "null" THEN "null" ELSE "closed"

\* The function returned by the effect, on the closure of one run.
CleanupRun(run) ==
    [run EXCEPT !.active = FALSE, !.raf = FALSE,
                !.handLandmarker = Close(@), !.faceLandmarker = Close(@)]

\* stream.getTracks().forEach(t => t.stop()); k = 0 is "no stream".
StopTracks(streams, k) ==
    IF k = 0 THEN streams ELSE [streams EXCEPT ![k].tracks = "stopped"]

\* The effect runs again (dependency onUpdate changed): cleanup of the
\* current run, then a new run whose setup() waits for the vision runtime.
RestartTracker ==
    /\ trackers' = Append([trackers EXCEPT ![Len(trackers)] = CleanupRun(@)], NewTracker)
    /\ cameraStreams' = StopTracks(cameraStreams, srcObject)
    /\ UNCHANGED <<status, srcObject, onloadeddata, videoTime, detectVars>>

\* The component is removed: cleanup of the current run only.  Whether
\* videoRef.current is still attached when the cleanup of a removal runs
\* depends on the React version (refs are detached before passive cleanups
\* since React 17), so both outcomes are kept.
RemoveTracker(videoAttached) ==
    /\ trackers' = [trackers EXCEPT ![Len(trackers)] = CleanupRun(@)]
    /\ cameraStreams' = IF videoAttached THEN StopTracks(cameraStreams, srcObject)
                                         ELSE cameraStreams
    /\ UNCHANGED <<status, srcObject, onloadeddata, videoTime, detectVars>>

\* FilesetResolver.forVisionTasks resolves.
VisionLoaded(t) ==
    /\ trackers[t].stage = "vision"
    /\ trackers' = [trackers EXCEPT ![t].stage =
                        IF trackers[t].active THEN "detectors" ELSE "returned"]
    /\ UNCHANGED <<mounted, status, srcObject, onloadeddata, cameraStreams, videoTime, detectVars>>
    /\ UNCHANGED <<audioVars, sliceVars>>

\* Promise.all of the two createFromOptions resolves: the landmarkers are
\* stored in the closure before the active flag is looked at.
DetectorsCreated(t) ==
    /\ trackers[t].stage = "detectors"
    /\ trackers' = [trackers EXCEPT ![t] =
                        [@ EXCEPT !.handLandmarker = "open", !.faceLandmarker = "open",
                                  !.stage = IF trackers[t].active THEN "camera" ELSE "returned"]]
    /\ status' = IF trackers[t].active THEN SetStatus("Requesting Camera...") ELSE status
    /\ UNCHANGED <<mounted, srcObject, onloadeddata, cameraStreams, videoTime, detectVars>>
    /\ UNCHANGED <<audioVars, sliceVars>>

\* One of the awaited promises of setup() rejects: the catch block shows the
\* error.
SetupFails(t) ==
    /\ trackers[t].stage \in {"vision", "detectors", "camera"}
    /\ trackers' = [trackers EXCEPT ![t].stage = "failed"]
    /\ status' = SetStatus("Error")
    /\ UNCHANGED <<mounted, srcObject, onloadeddata, cameraStreams, videoTime, detectVars>>
    /\ UNCHANGED <<audioVars, sliceVars>>

\* navigator.mediaDevices (or its getUserMedia) is missing: the block that
\* requests the camera is skipped and setup() ends without a word.
CameraUnavailable(t) ==
    /\ trackers[t].stage = "camera"
    /\ trackers' = [trackers EXCEPT ![t].stage = "returned"]
    /\ UNCHANGED <<mounted, status, srcObject, onloadeddata, cameraStreams, videoTime, detectVars>>
    /\ UNCHANGED <<audioVars, sliceVars>>

\* getUserMedia resolves with a camera stream.  An inactive run stops the
\* tracks; an active one attaches the stream to the video element (whose
\* playback position starts again at 0) and installs onloadeddata.
CameraGranted(t) ==
    /\ trackers[t].stage = "camera"
    /\ IF trackers[t].active
       THEN /\ cameraStreams' = Append(cameraStreams, [owner |-> t, tracks |-> "live"])
            /\ srcObject' = Len(cameraStreams) + 1
            /\ onloadeddata' = t
            /\ videoTime' = 0
            /\ trackers' = [trackers EXCEPT ![t].stage = "loadeddata"]
       ELSE /\ cameraStreams' = Append(cameraStreams, [owner |-> t, tracks |-> "stopped"])
            /\ trackers' = [trackers EXCEPT ![t].stage = "returned"]
            /\ UNCHANGED <<srcObject, onloadeddata, videoTime>>
    /\ UNCHANGED <<mounted, status, detectVars>>
    /\ UNCHANGED <<audioVars, sliceVars>>

\* The loadeddata event of the video element: the installed handler calls
\* play() if its run is active and the element is there.
LoadedData ==
    /\ onloadeddata # 0
    /\ trackers[onloadeddata].stage = "loadeddata"
    /\ trackers' = [trackers EXCEPT ![onloadeddata].stage =
                        IF trackers[onloadeddata].active /\ mounted THEN "play" ELSE "returned"]
    /\ UNCHANGED <<mounted, status, srcObject, onloadeddata, cameraStreams, videoTime, detectVars>>
    /\ UNCHANGED <<audioVars, sliceVars>>

\* Bound on the count of logged warnings.
MaxWarnings == 2

\* What the detectors do in one tick: both return (hr, fr), or one throws.
\* A landmarker that was closed may do either.
Returns(hr, fr) == [kind |-> "returns", hr |-> hr, fr |-> fr]
Throws == [kind |-> "throws", hr |-> <<>>, fr |-> <<>>]

\* The try block without the timestamp guard.
DetectUnguarded(outcome) ==
    /\ lastVideoTime' = videoTime
    /\ detectedAt' = detectedAt \cup {<<srcObject, videoTime>>}
    /\ repeatedTime' = (repeatedTime \/ \E d \in detectedAt : d[2] = videoTime)
    /\ IF outcome.kind = "returns"
       THEN /\ handResults' = outcome.hr
            /\ faceResults' = outcome.fr
            /\ inputData' = NewData(outcome.hr, outcome.fr)
            /\ UNCHANGED warnings
       ELSE /\ warnings' = Tick(warnings, MaxWarnings)
            /\ UNCHANGED <<handResults, faceResults, inputData>>

\* The try block of predictWebcam: the timestamp guard, the detector calls,
\* the extraction and the publication.
Detect(outcome) ==
    IF videoTime # lastVideoTime
    THEN /\ lastVideoTime' = videoTime
         /\ detectedAt' = detectedAt \cup {<<srcObject, videoTime>>}
         /\ repeatedTime' = (repeatedTime \/ \E d \in detectedAt : d[2] = videoTime)
         /\ IF outcome.kind = "returns"
            THEN /\ handResults' = outcome.hr
                 /\ faceResults' = outcome.fr
                 /\ inputData' = NewData(outcome.hr, outcome.fr)
                 /\ UNCHANGED warnings
            ELSE /\ warnings' = Tick(warnings, MaxWarnings)
                 /\ UNCHANGED <<handResults, faceResults, inputData>>
    ELSE UNCHANGED detectVars

\* The play() promise resolves: the status is set and predictWebcam is called
\* for the first time (it returns at once if the video element is gone).
PlayResolved(t, outcome) ==
    /\ trackers[t].stage = "play"
    /\ status' = SetStatus("Active (Hands + Face)")
    /\ IF mounted
       THEN /\ Detect(outcome)
            /\ trackers' = [trackers EXCEPT ![t] = [@ EXCEPT !.stage = "looping", !.raf = TRUE]]
       ELSE /\ UNCHANGED detectVars
            /\ trackers' = [trackers EXCEPT ![t].stage = "returned"]
    /\ UNCHANGED <<mounted, srcObject, onloadeddata, cameraStreams, videoTime>>
    /\ UNCHANGED <<audioVars, sliceVars>>

\* The play() promise rejects.
PlayRejected(t) ==
    /\ trackers[t].stage = "play"
    /\ trackers' = [trackers EXCEPT ![t].stage = "failed"]
    /\ status' = SetStatus("Camera Error: Click page to enable")
    /\ UNCHANGED <<mounted, srcObject, onloadeddata, cameraStreams, videoTime, detectVars>>
    /\ UNCHANGED <<audioVars, sliceVars>>

\* The video element presents the next frame of its stream.
VideoAdvance ==
    /\ mounted
    /\ srcObject # 0
    /\ cameraStreams[srcObject].tracks = "live"
    /\ videoTime < MaxVideoTime
    /\ videoTime' = videoTime + 1
    /\ UNCHANGED <<mounted, lifeVars, detectVars>>
    /\ UNCHANGED <<audioVars, sliceVars>>

\* One tick of predictWebcam in which both detectors return.
PredictWebcam(hr, fr) ==
    /\ mounted
    /\ \E t \in TrackerIds : trackers[t].raf
    /\ videoTime # lastVideoTime
    /\ Detect(Returns(hr, fr))
    /\ UNCHANGED <<mounted, lifeVars, videoTime>>
    /\ UNCHANGED <<audioVars, sliceVars>>

\* A tick in which the exception of a detector leaves predictWebcam before
\* requestAnimationFrame is reached.
PredictWebcamThrowsStops ==
    /\ mounted
    /\ videoTime # lastVideoTime
    /\ \E t \in TrackerIds :
          /\ trackers[t].raf
          /\ trackers' = [trackers EXCEPT ![t].raf = FALSE]
    /\ Detect(Throws)
    /\ UNCHANGED <<mounted, status, srcObject, onloadeddata, cameraStreams, videoTime>>
    /\ UNCHANGED <<audioVars, sliceVars>>

\* One tick of predictWebcam in which a detector throws: the exception is
\* caught after the time was recorded, nothing is published, and the next
\* tick is requested.
PredictWebcamThrows ==
    /\ mounted
    /\ \E t \in TrackerIds : trackers[t].raf
    /\ videoTime # lastVideoTime
    /\ Detect(Throws)
    /\ UNCHANGED <<mounted, lifeVars, videoTime>>
    /\ UNCHANGED <<audioVars, sliceVars>>

\* One tick of predictWebcam on a video frame already seen: detection is
\* skipped and the tick only reschedules itself.
PredictWebcamStale ==
    /\ mounted
    /\ \E t \in TrackerIds : trackers[t].raf
    /\ videoTime = lastVideoTime
    /\ UNCHANGED vars

\* One tick of predictWebcam after the video element is gone: the first
\* line returns and no further tick is requested.
PredictWebcamReturns(t) ==
    /\ ~mounted
    /\ trackers[t].raf
    /\ trackers' = [trackers EXCEPT ![t].raf = FALSE]
    /\ UNCHANGED <<mounted, status, srcObject, onloadeddata, cameraStreams, videoTime, detectVars>>
    /\ UNCHANGED <<audioVars, sliceVars>>

---------------------------------------------------------------------------
(* constants.ts                                                            *)

\* '#RRGGBB' as its three bytes.
Hex(r, g, b) == <<r, g, b>>

\* '#D7CEA3', '#907826', ... in decimal bytes.
PALETTES ==
    [DEFAULT  |-> <<Hex(215, 206, 163), Hex(144, 120, 38), Hex(164, 103, 25),
                    Hex(206, 63, 14), Hex(26, 12, 71)>>,
     JOY      |-> <<Hex(255, 154, 162), Hex(255, 183, 178), Hex(255, 218, 193),
                    Hex(226, 240, 203), Hex(181, 234, 215)>>,
     SURPRISE |-> <<Hex(0, 255, 65), Hex(0, 143, 17), Hex(0, 59, 0),
                    Hex(208, 240, 192), Hex(57, 255, 20)>>,
     MOODY    |-> <<Hex(0, 18, 25), Hex(0, 95, 115), Hex(10, 147, 150),
                    Hex(148, 210, 189), Hex(233, 216, 166)>>]

\* export const CONFIG (the fields the frame callbacks read)
CONFIG == [sliceCount |-> 60, stackHeight |-> 12, animationSpeed |-> 4000]

---------------------------------------------------------------------------
(* ColorSlices: colours                                                    *)

\* A colour channel c in [0,1] is the integer c * ColorOne; a byte b of a hex
\* colour is the channel b/255.
ColorOne == 255 * 40

\* new THREE.Color(hex)
ColorOf(hex) ==
    [r |-> hex[1] * (ColorOne \div 255),
     g |-> hex[2] * (ColorOne \div 255),
     b |-> hex[3] * (ColorOne \div 255)]

\* Color.lerp(target, alpha): c += (target - c) * alpha, per channel;
\* alpha in hundredths.
ColorLerp(c, t, alpha) ==
    [r |-> c.r + MulRat(t.r - c.r, alpha, 100),
     g |-> c.g + MulRat(t.g - c.g, alpha, 100),
     b |-> c.b + MulRat(t.b - c.b, alpha, 100)]

\* Color.multiplyScalar(s), s in units of One
ColorScale(c, s) ==
    [r |-> MulRat(c.r, s, One), g |-> MulRat(c.g, s, One), b |-> MulRat(c.b, s, One)]

PaletteColors(name) == [i \in 1..5 |-> ColorOf(PALETTES[name][i])]

\* const lerpSpeed = 0.15 (hundredths)
lerpSpeed == 15

\* Mutant of ColorLoop: the target is read from the slot after the blended one.
RECURSIVE ColorLoopNextSlot(_, _, _, _)
ColorLoopNextSlot(pal, inst, target, i) ==
    IF i >= CONFIG.sliceCount THEN [palette |-> pal, instance |-> inst]
    ELSE LET slot == (i % 5) + 1
             c    == ColorLerp(pal[slot], target[((i + 1) % 5) + 1], lerpSpeed)
         IN  ColorLoopNextSlot([pal EXCEPT ![slot] = c],
                               [inst EXCEPT ![i] = c], target, i + 1)

\* The colour part of the instance loop: for each instance i the shared
\* colour of slot i % 5 is blended toward the target and then written to the
\* instance.
RECURSIVE ColorLoop(_, _, _, _)
ColorLoop(pal, inst, target, i) ==
    IF i >= CONFIG.sliceCount THEN [palette |-> pal, instance |-> inst]
    ELSE LET slot == (i % 5) + 1
             c    == ColorLerp(pal[slot], target[slot], lerpSpeed)
         IN  ColorLoop([pal EXCEPT ![slot] = c],
                       [inst EXCEPT ![i] = c], target, i + 1)

---------------------------------------------------------------------------
(* ColorSlices: mood                                                       *)

\* Thresholds of the cascade, in units of One: 0.4, 0.2, 0.3
smileThreshold     == 4000
mouthOpenThreshold == 2000
browDownThreshold  == 3000

\* Mutant of NextPalette: the thresholds are tested independently and the
\* last match wins.
NextPaletteLastWins(face) ==
    IF ~face.present THEN "DEFAULT"
    ELSE IF face.browDown > browDownThreshold THEN "MOODY"
    ELSE IF face.mouthOpen > mouthOpenThreshold THEN "SURPRISE"
    ELSE IF face.smile > smileThreshold THEN "JOY"
    ELSE "DEFAULT"

NextPalette(face) ==
    IF face.present
    THEN IF face.smile > smileThreshold THEN "JOY"
         ELSE IF face.mouthOpen > mouthOpenThreshold THEN "SURPRISE"
         ELSE IF face.browDown > browDownThreshold THEN "MOODY"
         ELSE "DEFAULT"
    ELSE "DEFAULT"

EmotionIntensity(face) ==
    IF face.present
    THEN IF face.smile > smileThreshold THEN face.smile
         ELSE IF face.mouthOpen > mouthOpenThreshold THEN face.mouthOpen
         ELSE IF face.browDown > browDownThreshold THEN face.browDown
         ELSE 0
    ELSE 0

---------------------------------------------------------------------------
(* ColorSlices: springs                                                    *)

\* new SpringValue(initial, stiffness, damping); stiffness and damping in
\* hundredths, value / target / velocity in units of One.
SpringValue(initial, stiffness, damping) ==
    [value |-> initial, target |-> initial, velocity |-> 0,
     stiffness |-> stiffness, damping |-> damping]

\* Mutant of SpringUpdate: the velocity is assigned to the value ('=' for '+=').
SpringUpdateAssign(s) ==
    LET force    == MulRat(s.target - s.value, s.stiffness, 100)
        velocity == MulRat(s.velocity, s.damping, 100) + force
    IN  [s EXCEPT !.velocity = velocity, !.value = velocity]

\* SpringValue.update()
SpringUpdate(s) ==
    LET force    == MulRat(s.target - s.value, s.stiffness, 100)
        velocity == MulRat(s.velocity, s.damping, 100) + force
    IN  [s EXCEPT !.velocity = velocity, !.value = s.value + velocity]

SpringNames == {"stackHeight", "twist", "radiusScale", "chaos"}

InitialSprings ==
    [stackHeight |-> SpringValue(CONFIG.stackHeight * One, 5, 85),
     twist       |-> SpringValue(0, 3, 90),
     radiusScale |-> SpringValue(One, 10, 80),
     chaos       |-> SpringValue(0, 5, 90)]

\* Math.PI as a fraction (355/113 = 3.1415929...)
PiNum == 355
PiDen == 113

\* Mutant of SpringTargets: the height multiplier is 1.0 + left.y.
SpringTargetsLowHeight(left, right) ==
    [stackHeight |-> IF left.present
                     THEN CONFIG.stackHeight * Max(One \div 2, One + left.y)
                     ELSE CONFIG.stackHeight * One,
     twist       |-> IF left.present THEN MulRat(left.x * 4, PiNum, PiDen) ELSE 0,
     radiusScale |-> IF right.present THEN One + MulRat(right.y, 8, 10) ELSE One,
     chaos       |-> IF right.present THEN MulRat(right.x + One, 5, 10) ELSE 0]

\* "Calculate Targets": the targets the hands select for the four springs.
SpringTargets(left, right) ==
    [stackHeight |-> IF left.present
                     THEN CONFIG.stackHeight * Max(One \div 2, (One + One \div 2) + left.y)
                     ELSE CONFIG.stackHeight * One,
     twist       |-> IF left.present THEN MulRat(left.x * 4, PiNum, PiDen) ELSE 0,
     radiusScale |-> IF right.present THEN One + MulRat(right.y, 8, 10) ELSE One,
     chaos       |-> IF right.present THEN MulRat(right.x + One, 5, 10) ELSE 0]

\* audio.low > 0.4 triggers the kick
kickThreshold == 4000

\* Mutant of Kick: the impulse is given at every bass level.
KickAtAnyLevel(sp, mode, audio) ==
    IF mode # "OFF"
    THEN [sp EXCEPT !.radiusScale.velocity = @ + MulRat(audio.low, 5, 100),
                    !.stackHeight.velocity = @ + MulRat(audio.low, 10, 100)]
    ELSE sp

\* "Audio Input": the velocity impulse added before the update.
Kick(sp, mode, audio) ==
    IF mode # "OFF" /\ audio.low > kickThreshold
    THEN [sp EXCEPT !.radiusScale.velocity = @ + MulRat(audio.low, 5, 100),
                    !.stackHeight.velocity = @ + MulRat(audio.low, 10, 100)]
    ELSE sp

\* "Update Springs": assign the targets, then update() each spring.
UpdateSprings(sp, targets) ==
    [n \in SpringNames |-> SpringUpdate([sp[n] EXCEPT !.target = targets[n]])]

---------------------------------------------------------------------------
(* ColorSlices: material                                                   *)

\* THREE.MathUtils.lerp(x, y, t) = (1 - t) * x + t * y ; t in tenths
MathLerp(x, y, t) == MulRat(x, 10 - t, 10) + MulRat(y, t, 10)

InitialMaterial ==
    [ior |-> One + One \div 2, chromaticAberration |-> One \div 20,
     emissive |-> ColorOf(Hex(0, 0, 0))]

MaterialUpdate(m, sp, right, face, paletteName) ==
    LET springEnergy     == Abs(sp.radiusScale.velocity) * 10
        targetIor        == (One + One \div 2)
                              + (IF right.present THEN right.pinch ELSE 0)
                              + springEnergy
        targetAberration == One \div 20 + MulRat(springEnergy, 5, 10)
        targetEmissive   == ColorScale(ColorOf(PALETTES[paletteName][1]),
                                       MulRat(EmotionIntensity(face), 5, 10))
    IN  [ior                 |-> MathLerp(m.ior, targetIor, 1),
         chromaticAberration |-> MathLerp(m.chromaticAberration, targetAberration, 1),
         emissive            |-> ColorLerp(m.emissive, targetEmissive, 10)]

---------------------------------------------------------------------------
(* ColorSlices: instance transforms                                        *)

\* a * b for two numbers in units of One
Mul(a, b) == IF b >= 0 THEN MulRat(a, b, One) ELSE -MulRat(a, -b, One)

\* The series x - x^3/3! + x^5/5! - x^7/7! on [0, pi/2].
SinSeries(z) ==
    LET z2 == Mul(z, z)
        t3 == Mul(z, z2) \div 6
        t5 == Mul(t3, z2) \div 20
        t7 == Mul(t5, z2) \div 42
    IN  z - t3 + t5 - t7

\* Math.sin of an angle in units of One: the angle is reduced to [0, pi/2]
\* by the symmetries of the sine, then the series is summed (the result is
\* within 1e-3 of the sine).
Sin(x) ==
    LET pi == MulRat(One, PiNum, PiDen)
        y  == x % (2 * pi)
    IN  IF y <= pi \div 2 THEN SinSeries(y)
        ELSE IF y <= pi THEN SinSeries(pi - y)
        ELSE IF y <= pi + pi \div 2 THEN -SinSeries(y - pi)
        ELSE -SinSeries(2 * pi - y)

\* The render loop runs at this rate: the n-th frame reads the clock n / 60.
FramesPerSecond == 60

\* state.clock.elapsedTime * CONFIG.animationSpeed at the n-th frame
FrameTime(n) == Mul(MulRat(n * One, 1, FramesPerSecond), CONFIG.animationSpeed)

\* The pairs Math.random() returns for the X and the Z jitter of one frame
\* (every instance of the frame draws the same pair).
Rands == {<<0, One - 1>>, <<One - 1, One \div 2>>}

\* chaos > 0.01 switches the jitter on
chaosThreshold == 100

\* tempObject as constructed, written to every instance by the layout effect.
InitialTransform ==
    [position |-> <<0, 0, 0>>, rotation |-> <<0, 0, 0>>, scale |-> <<One, One, One>>]

\* Mutant of InstanceTransform: the radius is not floored at 0.1.
InstanceTransformNoFloor(i, sp, time, rand) ==
    LET chaos  == sp.chaos.value
        wave   == MulRat(Sin(MulRat(i * 6 * One, PiNum, PiDen * CONFIG.sliceCount)
                             - 2 * time), 2, 10)
        radius == sp.radiusScale.value + wave
        worm   == Mul(Sin(time + MulRat(i * 4 * One, 1, CONFIG.sliceCount)), 2 * chaos)
        jx     == IF chaos > chaosThreshold THEN Mul(rand[1] - One \div 2, chaos) ELSE 0
        jz     == IF chaos > chaosThreshold THEN Mul(rand[2] - One \div 2, chaos) ELSE 0
    IN  [position |-> <<jx + worm,
                        MulRat(sp.stackHeight.value, 2 * i - CONFIG.sliceCount,
                               2 * CONFIG.sliceCount),
                        jz>>,
         rotation |-> <<MulRat(One, PiNum, 2 * PiDen),
                        MulRat(sp.twist.value, i, CONFIG.sliceCount) + MulRat(time, 2, 10),
                        0>>,
         scale    |-> <<radius, radius, One>>]

\* "APPLY TRANSFORMATIONS": position, rotation and scale of instance i.
InstanceTransform(i, sp, time, rand) ==
    LET chaos  == sp.chaos.value
        wave   == MulRat(Sin(MulRat(i * 6 * One, PiNum, PiDen * CONFIG.sliceCount)
                             - 2 * time), 2, 10)
        radius == Max(One \div 10, sp.radiusScale.value + wave)
        worm   == Mul(Sin(time + MulRat(i * 4 * One, 1, CONFIG.sliceCount)), 2 * chaos)
        jx     == IF chaos > chaosThreshold THEN Mul(rand[1] - One \div 2, chaos) ELSE 0
        jz     == IF chaos > chaosThreshold THEN Mul(rand[2] - One \div 2, chaos) ELSE 0
    IN  [position |-> <<jx + worm,
                        MulRat(sp.stackHeight.value, 2 * i - CONFIG.sliceCount,
                               2 * CONFIG.sliceCount),
                        jz>>,
         rotation |-> <<MulRat(One, PiNum, 2 * PiDen),
                        MulRat(sp.twist.value, i, CONFIG.sliceCount) + MulRat(time, 2, 10),
                        0>>,
         scale    |-> <<radius, radius, One>>]

---------------------------------------------------------------------------
(* ColorSlices: the frame callback                                         *)

\* Cap of the count of ColorSlices frames.
FrameCap == 200

\* The callback `name` of the current render frame has been called.
Called(name) == SelectSeq(renderPending, LAMBDA c : c # name)

\* useFrame of ColorSlices, with the mesh and the material mounted.
ColorSlicesFrame ==
    LET face    == inputData.face
        left    == inputData.hands.left
        right   == inputData.hands.right
        next    == NextPalette(face)
        kicked  == Kick(springs, audioMode, audioData)
        sp      == UpdateSprings(kicked, SpringTargets(left, right))
        colors  == ColorLoop(currentPalette, instanceColor, PaletteColors(next), 0)
    IN  /\ mounted
        /\ targetPalette' = next
        /\ springs' = sp
        /\ currentPalette' = colors.palette
        /\ instanceColor' = colors.instance
        /\ material' = MaterialUpdate(material, sp, right, face, next)
        /\ frame' = Tick(frame, FrameCap)
        /\ \E rand \in (IF sp.chaos.value > chaosThreshold THEN Rands ELSE {<<0, 0>>}) :
              instanceMatrix' = [i \in 0..(CONFIG.sliceCount - 1) |->
                                    InstanceTransform(i, sp, FrameTime(frame), rand)]
        /\ handsRead' = [handsRead EXCEPT !["ColorSlices"] = {inputData.hands}]
        /\ renderPending' = Called("ColorSlices")
        /\ UNCHANGED <<handsDataProxy, cursors, lights, renderOrder>>
        /\ UNCHANGED <<mounted, trackerVars, audioVars>>

---------------------------------------------------------------------------
(* AudioManager                                                            *)

\* analyser.fftSize = 512, so frequencyBinCount = 256
fftSize == 512
frequencyBinCount == fftSize \div 2

RECURSIVE SumBins(_, _, _)
\* dataArray[lo] + ... + dataArray[hi - 1]  (bins are numbered from 0; the
\* integer sum is split in halves to bound the depth of the evaluation)
SumBins(data, lo, hi) ==
    IF lo >= hi THEN 0
    ELSE IF hi = lo + 1 THEN data[lo + 1]
    ELSE LET mid == (lo + hi) \div 2
         IN  SumBins(data, lo, mid) + SumBins(data, mid, hi)

\* lerp(a, b, t) = a + (b - a) * t ; t in tenths
Lerp(a, b, t) == a + MulRat(b - a, t, 10)

\* Mutant of Analyse: the sums are not divided by 255.
AnalyseUnnormalised(audio, data) ==
    LET avgBass == MulRat(SumBins(data, 0, 4), One, 4)
        avgHigh == MulRat(SumBins(data, 20, 100), One, 80)
        avgVol  == MulRat(SumBins(data, 0, Len(data)), One, Len(data))
    IN  [low  |-> Lerp(audio.low, avgBass, 3),
         high |-> Lerp(audio.high, avgHigh, 3),
         vol  |-> Lerp(audio.vol, avgVol, 3)]

\* "Audio Analysis": band means, normalised by 255, smoothed with 0.3
Analyse(audio, data) ==
    LET avgBass == MulRat(SumBins(data, 0, 4), One, 4 * 255)
        avgHigh == MulRat(SumBins(data, 20, 100), One, 80 * 255)
        avgVol  == MulRat(SumBins(data, 0, Len(data)), One, Len(data) * 255)
    IN  [low  |-> Lerp(audio.low, avgBass, 3),
         high |-> Lerp(audio.high, avgHigh, 3),
         vol  |-> Lerp(audio.vol, avgVol, 3)]

\* "Decay to 0"
\* Decay with a factor above 1 (the features overshoot 0).
DecayOvershoots(audio) ==
    [low  |-> Lerp(audio.low, 0, 11),
     high |-> Lerp(audio.high, 0, 11),
     vol  |-> Lerp(audio.vol, 0, 11)]

Decay(audio) ==
    [low  |-> Lerp(audio.low, 0, 1),
     high |-> Lerp(audio.high, 0, 1),
     vol  |-> Lerp(audio.vol, 0, 1)]

Silence == [low |-> 0, high |-> 0, vol |-> 0]

AudioFrameCap == 40

\* The spectrum the analyser reports: one byte level per band
\* [0,4), [4,20), [20,100), [100,256).
Bins(bass, mid, high, top) ==
    [i \in 1..frequencyBinCount |->
        IF i <= 4 THEN bass ELSE IF i <= 20 THEN mid ELSE IF i <= 100 THEN high ELSE top]

AllBins(level) == Bins(level, level, level, level)

Spectra ==
    {AllBins(0), AllBins(255), AllBins(128), Bins(255, 0, 0, 0), Bins(0, 128, 255, 0)}

AudioModes == {"OFF", "MIC", "THEREMIN"}

---------------------------------------------------------------------------
(* AudioManager: the mode effect, its cleanup and its asynchronous setup    *)

\* The refs of AudioManager that hold nodes and the stream; 0 is null.  A
\* node ref holds the index of the set in thereminNodes its node belongs to,
\* a microphone ref the index of the stream in micStreams.
NullRefs ==
    [oscBass |-> 0, gainBass |-> 0, oscLead |-> 0, gainLead |-> 0,
     vibrato |-> 0, vibratoGain |-> 0, micStream |-> 0, micSource |-> 0]

\* The nodes one THEREMIN setup creates, after start() and connect().
NewThereminNodes ==
    [oscBass |-> "running", oscLead |-> "running", vibrato |-> "running",
     gainBass |-> "connected", gainLead |-> "connected", vibratoGain |-> "connected"]

\* The closure of one run of the mode effect: the mode it was run for, its
\* active flag and the await its setupAudio() is suspended at.
NewEffect(mode, stage) == [mode |-> mode, active |-> TRUE, stage |-> stage]

EffectIds == 1..Len(audioEffects)

\* The state the synchronous part of the effect works on; `thrown` is set
\* when an exception leaves a statement uncaught (the rest is then skipped).
EffectState ==
    [refs |-> nodeRefs, nodes |-> thereminNodes, streams |-> micStreams, thrown |-> FALSE]

\* stopNode without its try/catch.
stopNodeUncaught(c, osc, stopThrows) ==
    IF c.thrown \/ c.refs[osc] = 0 THEN c
    ELSE IF stopThrows /\ c.nodes[c.refs[osc]][osc] = "stopped"
         THEN [c EXCEPT !.thrown = TRUE]
         ELSE [c EXCEPT !.nodes[c.refs[osc]][osc] = "stopped"]

\* stopNode: node?.stop(); node?.disconnect() inside try/catch.  stopThrows
\* says whether stop() of this browser throws on an oscillator that was
\* stopped before; the exception is caught here.
stopNode(c, osc, stopThrows) ==
    IF c.thrown \/ c.refs[osc] = 0 THEN c
    ELSE IF stopThrows /\ c.nodes[c.refs[osc]][osc] = "stopped"
         THEN c
         ELSE [c EXCEPT !.nodes[c.refs[osc]][osc] = "stopped"]

\* disconnectNode on a gain ref: node?.disconnect() inside try/catch.
disconnectNode(c, gain) ==
    IF c.thrown \/ c.refs[gain] = 0 THEN c
    ELSE [c EXCEPT !.nodes[c.refs[gain]][gain] = "disconnected"]

\* disconnectNode(micSourceRef.current).
disconnectMicSource(c) ==
    IF c.thrown \/ c.refs.micSource = 0 THEN c
    ELSE [c EXCEPT !.streams[c.refs.micSource].source = "disconnected"]

\* if (micStreamRef.current) { stop every track; micStreamRef.current = null }
stopMicStream(c) ==
    IF c.thrown \/ c.refs.micStream = 0 THEN c
    ELSE [c EXCEPT !.streams[c.refs.micStream].tracks = "stopped",
                   !.refs.micStream = 0]

\* The cleanup with stopNode(oscLeadRef.current) left out.
CleanupForgetsLead(c, stopThrows) ==
    stopMicStream(
      disconnectMicSource(
        disconnectNode(
          disconnectNode(
            disconnectNode(
              stopNode(
                stopNode(c, "oscBass", stopThrows),
                "vibrato", stopThrows),
              "gainBass"),
            "gainLead"),
          "vibratoGain")))

\* "Cleanup Previous Nodes": the statements at the head of the effect, in
\* the order of the source.
CleanupPreviousNodes(c, stopThrows) ==
    stopMicStream(
      disconnectMicSource(
        disconnectNode(
          disconnectNode(
            disconnectNode(
              stopNode(
                stopNode(
                  stopNode(c, "oscBass", stopThrows),
                  "oscLead", stopThrows),
                "vibrato", stopThrows),
              "gainBass"),
            "gainLead"),
          "vibratoGain")))

\* THEREMIN branch without the test of the active flag.
CreateThereminNodesUnguarded(c, active) ==
    [c EXCEPT !.nodes = Append(c.nodes, NewThereminNodes),
              !.refs = [c.refs EXCEPT !.oscBass = Len(c.nodes) + 1,
                                      !.gainBass = Len(c.nodes) + 1,
                                      !.oscLead = Len(c.nodes) + 1,
                                      !.gainLead = Len(c.nodes) + 1,
                                      !.vibrato = Len(c.nodes) + 1,
                                      !.vibratoGain = Len(c.nodes) + 1]]

\* THEREMIN branch after the await: `if (!active) return`, then the three
\* oscillators and gains are created, connected, started and stored.
CreateThereminNodes(c, active) ==
    IF ~active THEN c
    ELSE [c EXCEPT !.nodes = Append(c.nodes, NewThereminNodes),
                   !.refs = [c.refs EXCEPT !.oscBass = Len(c.nodes) + 1,
                                           !.gainBass = Len(c.nodes) + 1,
                                           !.oscLead = Len(c.nodes) + 1,
                                           !.gainLead = Len(c.nodes) + 1,
                                           !.vibrato = Len(c.nodes) + 1,
                                           !.vibratoGain = Len(c.nodes) + 1]]

\* MIC branch after getUserMedia resolved: an inactive run stops the tracks
\* of the stream and returns; an active one stores the stream and connects
\* its source through micGain to the analyser.
AttachMicrophone(c, active) ==
    IF ~active
    THEN [c EXCEPT !.streams = Append(c.streams, [tracks |-> "stopped", source |-> "none"])]
    ELSE [c EXCEPT !.streams = Append(c.streams, [tracks |-> "live", source |-> "connected"]),
                   !.refs = [c.refs EXCEPT !.micStream = Len(c.streams) + 1,
                                           !.micSource = Len(c.streams) + 1]]

\* setupAudio up to its first await (or to its end), for the new mode.
SetupAudio(c, mode) ==
    IF mode = "THEREMIN" /\ ctxState # "suspended"
    THEN CreateThereminNodes(c, TRUE)
    ELSE c

\* The await a new run of setupAudio is suspended at.
FirstAwait(mode) ==
    IF mode = "OFF" THEN "done"
    ELSE IF ctxState = "suspended" THEN "resume"
    ELSE IF mode = "MIC" THEN "getUserMedia"
    ELSE "done"

\* The cleanup function the effect returned: active = false.
Deactivate(effects) == [effects EXCEPT ![Len(effects)].active = FALSE]

\* The UI selects another mode: App renders again, the cleanup of the
\* previous run of the mode effect runs (active = false), the effect runs
\* for the new mode (cleanup of the previous nodes, then setupAudio up to
\* its first await; the OFF branch replaces the features by zeros), and the
\* HandTracker effect runs again because its onUpdate prop changed.
SetAudioMode(mode, stopThrows) ==
    /\ mounted
    /\ mode # audioMode
    /\ audioMode' = mode
    /\ LET cleaned == CleanupPreviousNodes(EffectState, stopThrows)
           c == IF cleaned.thrown THEN cleaned ELSE SetupAudio(cleaned, mode)
       IN /\ nodeRefs' = c.refs
          /\ thereminNodes' = c.nodes
          /\ micStreams' = c.streams
          /\ audioEffects' = Append(Deactivate(audioEffects),
                                    NewEffect(mode, IF c.thrown THEN "done" ELSE FirstAwait(mode)))
          /\ audioData' = IF mode = "OFF" /\ ~c.thrown THEN Silence ELSE audioData
    /\ RestartTracker
    /\ UNCHANGED <<mounted, ctxState, dataArray, audioFrame>>
    /\ UNCHANGED <<retargets, sliceVars>>

\* ctx.resume(), called by the click handler of the UI, takes effect.
ContextResumes ==
    /\ ctxState = "suspended"
    /\ Len(audioEffects) > 1
    /\ ctxState' = "running"
    /\ UNCHANGED <<mounted, audioMode, audioEffects, nodeRefs, thereminNodes, micStreams,
                   dataArray, audioData, audioFrame>>
    /\ UNCHANGED <<trackerVars, retargets, sliceVars>>

\* `await ctx.resume()` of run e settles (resumed = FALSE: it rejects).  The
\* THEREMIN branch swallows a rejection and goes on; the MIC branch goes on
\* to getUserMedia, or to its catch block on a rejection.
ResumeSettled(e, resumed) ==
    /\ audioEffects[e].stage = "resume"
    /\ resumed \/ ctxState = "suspended"
    /\ ctxState' = IF resumed THEN "running" ELSE ctxState
    /\ LET c == IF audioEffects[e].mode = "THEREMIN"
                THEN CreateThereminNodes(EffectState, audioEffects[e].active)
                ELSE EffectState
       IN /\ nodeRefs' = c.refs
          /\ thereminNodes' = c.nodes
          /\ micStreams' = c.streams
    /\ audioEffects' = [audioEffects EXCEPT ![e].stage =
                            IF audioEffects[e].mode = "MIC" /\ resumed
                            THEN "getUserMedia" ELSE "done"]
    /\ UNCHANGED <<mounted, audioMode, dataArray, audioData, audioFrame>>
    /\ UNCHANGED <<trackerVars, retargets, sliceVars>>

\* getUserMedia of run e resolves with a microphone stream.
MicGranted(e) ==
    /\ audioEffects[e].stage = "getUserMedia"
    /\ LET c == AttachMicrophone(EffectState, audioEffects[e].active)
       IN /\ nodeRefs' = c.refs
          /\ thereminNodes' = c.nodes
          /\ micStreams' = c.streams
    /\ audioEffects' = [audioEffects EXCEPT ![e].stage = "done"]
    /\ UNCHANGED <<mounted, audioMode, ctxState, dataArray, audioData, audioFrame>>
    /\ UNCHANGED <<trackerVars, retargets, sliceVars>>

\* getUserMedia of run e rejects (permission denied): logged, nothing else.
MicDenied(e) ==
    /\ audioEffects[e].stage = "getUserMedia"
    /\ audioEffects' = [audioEffects EXCEPT ![e].stage = "done"]
    /\ UNCHANGED <<mounted, audioMode, ctxState, nodeRefs, thereminNodes, micStreams,
                   dataArray, audioData, audioFrame>>
    /\ UNCHANGED <<trackerVars, retargets, sliceVars>>

\* The App tree is removed: the cleanup functions of the effects run and no
\* effect runs again.  The cleanup of the mode effect only clears its active
\* flag.
Unmount(videoAttached) ==
    /\ mounted
    /\ mounted' = FALSE
    /\ audioEffects' = Deactivate(audioEffects)
    /\ RemoveTracker(videoAttached)
    /\ UNCHANGED <<audioMode, ctxState, nodeRefs, thereminNodes, micStreams,
                   dataArray, audioData, audioFrame>>
    /\ UNCHANGED <<retargets, sliceVars>>

\* A source feeds the analyser: an oscillator that runs behind a connected
\* gain, or a microphone stream with live tracks and a connected source.
AnalyserFed ==
    \/ \E k \in 1..Len(thereminNodes) :
          \/ thereminNodes[k].oscBass = "running" /\ thereminNodes[k].gainBass = "connected"
          \/ thereminNodes[k].oscLead = "running" /\ thereminNodes[k].gainLead = "connected"
    \/ \E k \in 1..Len(micStreams) :
          micStreams[k].tracks = "live" /\ micStreams[k].source = "connected"

\* setTargetAtTime(target, ctx.currentTime, timeConstant); the time constant
\* in hundredths of a second.
Retarget(target, timeConstant) == [target |-> target, timeConstant |-> timeConstant]

\* No setTargetAtTime call has been made yet.
NoRetargets ==
    [bassFrequency |-> Retarget(0, 0), bassGain |-> Retarget(0, 0),
     leadFrequency |-> Retarget(0, 0), leadGain |-> Retarget(0, 0),
     vibratoDepth |-> Retarget(0, 0)]

\* Mutant of ThereminControl: an absent hand leaves the gain where it is.
ThereminControlKeepsGain(rt, refs, mode, hands) ==
    IF mode # "THEREMIN" THEN rt
    ELSE LET left  == hands.left
             right == hands.right
             bass  == IF refs.oscBass # 0 /\ refs.gainBass # 0 /\ left.present
                      THEN [rt EXCEPT
                              !.bassFrequency =
                                  Retarget(50 * One + MulRat(left.y + One, 100, 2), 5),
                              !.bassGain = Retarget(MulRat(Max(0, left.pinch), 5, 10), 5)]
                      ELSE rt
         IN  IF refs.oscLead # 0 /\ refs.gainLead # 0 /\ refs.vibratoGain # 0
                 /\ right.present
             THEN [bass EXCEPT
                     !.leadFrequency = Retarget(440 * One + right.x * 300, 5),
                     !.leadGain = Retarget(MulRat(One, 3, 10), 5),
                     !.vibratoDepth = Retarget((One - right.pinch) * 20, 5)]
             ELSE bass

\* "Theremin Control Logic": bass from the left hand, lead from the right.
ThereminControl(rt, refs, mode, hands) ==
    IF mode # "THEREMIN" THEN rt
    ELSE LET left  == hands.left
             right == hands.right
             bass  == IF refs.oscBass # 0 /\ refs.gainBass # 0
                      THEN IF left.present
                           THEN [rt EXCEPT
                                   !.bassFrequency =
                                       Retarget(50 * One + MulRat(left.y + One, 100, 2), 5),
                                   !.bassGain =
                                       Retarget(MulRat(Max(0, left.pinch), 5, 10), 5)]
                           ELSE [rt EXCEPT !.bassGain = Retarget(0, 10)]
                      ELSE rt
         IN  IF refs.oscLead # 0 /\ refs.gainLead # 0 /\ refs.vibratoGain # 0
             THEN IF right.present
                  THEN [bass EXCEPT
                          !.leadFrequency = Retarget(440 * One + right.x * 300, 5),
                          !.leadGain = Retarget(MulRat(One, 3, 10), 5),
                          !.vibratoDepth = Retarget((One - right.pinch) * 20, 5)]
                  ELSE [bass EXCEPT !.leadGain = Retarget(0, 10)]
             ELSE bass

\* useFrame of AudioManager: the theremin control, then the analysis.  In
\* MIC or THEREMIN mode the analyser fills dataArray with the spectrum `bins`
\* (all zeros when nothing feeds the analyser; the tail its smoothing leaves
\* after a source went away is not modelled); otherwise the features decay.
AudioManagerFrame(bins) ==
    /\ mounted
    /\ retargets' = ThereminControl(retargets, nodeRefs, audioMode, handsDataProxy)
    /\ handsRead' = IF audioMode = "THEREMIN"
                    THEN [handsRead EXCEPT !["AudioManager"] = {handsDataProxy}]
                    ELSE handsRead
    /\ renderPending' = Called("AudioManager")
    /\ AnalyserFed \/ bins = AllBins(0)
    /\ IF audioMode \in {"MIC", "THEREMIN"}
       THEN /\ dataArray' = bins
            /\ audioData' = Analyse(audioData, bins)
       ELSE /\ dataArray' = dataArray
            /\ audioData' = Decay(audioData)
    /\ audioFrame' = Tick(audioFrame, AudioFrameCap)
    /\ UNCHANGED <<mounted, audioMode, nodeVars>>
    /\ UNCHANGED <<trackerVars, colorVars, handsDataProxy, cursors, lights, renderOrder>>

---------------------------------------------------------------------------
(* Experience, Cursor, ReactiveLighting                                     *)

\* useFrame of Experience: the proxy takes the hands of the published frame.
ExperienceFrame ==
    /\ mounted
    /\ handsDataProxy' = inputData.hands
    /\ renderPending' = Called("Experience")
    /\ UNCHANGED <<mounted, trackerVars, audioVars, colorVars>>
    /\ UNCHANGED <<cursors, lights, renderOrder, handsRead>>

\* color of the two BoundCursor components
CursorColor == [left |-> Hex(0, 255, 255), right |-> Hex(255, 170, 0)]

\* Mesh and light as created: visible, at the origin, scale 1, white,
\* intensity 1.
InitialCursor ==
    [visible |-> TRUE, position |-> <<0, 0, 0>>, scale |-> One,
     color |-> ColorOf(Hex(255, 255, 255)), intensity |-> One]

\* Mutant of CursorUpdate: an absent hand only switches the light off.
CursorUpdateStaysVisible(c, hand, color) ==
    IF hand.present
    THEN [visible   |-> TRUE,
          position  |-> <<c.position[1] + MulRat(hand.x - c.position[1], 2, 10),
                          c.position[2] + MulRat(hand.y - c.position[2], 2, 10),
                          c.position[3] + MulRat(6 * One - c.position[3], 2, 10)>>,
          scale     |-> MulRat(One, 2, 10) + MulRat(hand.pinch, 1, 10),
          color     |-> ColorLerp(ColorOf(color), ColorOf(Hex(255, 255, 255)),
                                  MulRat(One - hand.pinch, 100, One)),
          intensity |-> One + (One - hand.pinch)]
    ELSE [c EXCEPT !.intensity = 0]

\* The frame callback of BoundCursor on its mesh and light.  The position
\* is in units of a third of the viewport (x of its width, y of its height).
CursorUpdate(c, hand, color) ==
    IF hand.present
    THEN [visible   |-> TRUE,
          position  |-> <<c.position[1] + MulRat(hand.x - c.position[1], 2, 10),
                          c.position[2] + MulRat(hand.y - c.position[2], 2, 10),
                          c.position[3] + MulRat(6 * One - c.position[3], 2, 10)>>,
          scale     |-> MulRat(One, 2, 10) + MulRat(hand.pinch, 1, 10),
          color     |-> ColorLerp(ColorOf(color), ColorOf(Hex(255, 255, 255)),
                                  MulRat(One - hand.pinch, 100, One)),
          intensity |-> One + (One - hand.pinch)]
    ELSE [c EXCEPT !.visible = FALSE, !.intensity = 0]

\* useFrame of the BoundCursor of one hand.
CursorFrame(handKey) ==
    LET name == IF handKey = "left" THEN "CursorLeft" ELSE "CursorRight"
    IN  /\ mounted
        /\ cursors' = [cursors EXCEPT
                          ![handKey] = CursorUpdate(@, handsDataProxy[handKey],
                                                    CursorColor[handKey])]
        /\ handsRead' = [handsRead EXCEPT ![name] = {handsDataProxy}]
        /\ renderPending' = Called(name)
        /\ UNCHANGED <<mounted, trackerVars, audioVars, colorVars>>
        /\ UNCHANGED <<handsDataProxy, lights, renderOrder>>

LightTuple(c1, c2, intensity, ambient) ==
    [targetColor1 |-> ColorOf(c1), targetColor2 |-> ColorOf(c2),
     targetIntensity |-> intensity * One, targetAmbient |-> ambient]

\* Mutant of LightTargets: the open mouth is tested before the smile.
LightTargetsMouthFirst(face) ==
    IF face.present
    THEN IF face.mouthOpen > 2000
         THEN LightTuple(Hex(57, 255, 20), Hex(0, 255, 65), 300, MulRat(One, 1, 10))
         ELSE IF face.smile > 4000
         THEN LightTuple(Hex(255, 154, 162), Hex(255, 218, 193), 150, MulRat(One, 12, 10))
         ELSE IF face.browDown > 3000
         THEN LightTuple(Hex(0, 18, 25), Hex(10, 147, 150), 200, MulRat(One, 5, 100))
         ELSE LightTuple(Hex(0, 255, 255), Hex(255, 170, 0), 80, MulRat(One, 5, 10))
    ELSE LightTuple(Hex(0, 255, 255), Hex(255, 170, 0), 80, MulRat(One, 5, 10))

\* "Logic to determine target lighting state"
LightTargets(face) ==
    IF face.present
    THEN IF face.smile > 4000
         THEN LightTuple(Hex(255, 154, 162), Hex(255, 218, 193), 150, MulRat(One, 12, 10))
         ELSE IF face.mouthOpen > 2000
         THEN LightTuple(Hex(57, 255, 20), Hex(0, 255, 65), 300, MulRat(One, 1, 10))
         ELSE IF face.browDown > 3000
         THEN LightTuple(Hex(0, 18, 25), Hex(10, 147, 150), 200, MulRat(One, 5, 100))
         ELSE LightTuple(Hex(0, 255, 255), Hex(255, 170, 0), 80, MulRat(One, 5, 10))
    ELSE LightTuple(Hex(0, 255, 255), Hex(255, 170, 0), 80, MulRat(One, 5, 10))

\* The target refs and the three lights as created (a SpotLight is white).
InitialLights ==
    [target  |-> LightTuple(Hex(0, 255, 255), Hex(255, 170, 0), 80, MulRat(One, 5, 10)),
     spot1   |-> [color |-> ColorOf(Hex(255, 255, 255)), intensity |-> 80 * One],
     spot2   |-> [color |-> ColorOf(Hex(255, 255, 255)), intensity |-> 80 * One],
     ambient |-> MulRat(One, 5, 10)]

\* "Apply Updates with Lerp" (lerpSpeed 0.05); the sway of the two spot
\* positions, a function of the clock alone, is not part of the state.
LightsUpdate(l, face) ==
    LET t == LightTargets(face)
        Lerp5(x, y) == MulRat(x, 95, 100) + MulRat(y, 5, 100)
    IN  [target  |-> t,
         spot1   |-> [color     |-> ColorLerp(l.spot1.color, t.targetColor1, 5),
                      intensity |-> Lerp5(l.spot1.intensity, t.targetIntensity)],
         spot2   |-> [color     |-> ColorLerp(l.spot2.color, t.targetColor2, 5),
                      intensity |-> Lerp5(l.spot2.intensity, t.targetIntensity)],
         ambient |-> Lerp5(l.ambient, t.targetAmbient)]

\* useFrame of ReactiveLighting.
ReactiveLightingFrame ==
    /\ mounted
    /\ lights' = LightsUpdate(lights, inputData.face)
    /\ renderPending' = Called("ReactiveLighting")
    /\ UNCHANGED <<mounted, trackerVars, audioVars, colorVars>>
    /\ UNCHANGED <<handsDataProxy, cursors, renderOrder, handsRead>>

\* The callbacks that read the hands.
HandReaders == {"AudioManager", "ColorSlices", "CursorLeft", "CursorRight"}

\* The render loop starts a frame: it will call every subscribed callback
\* once, in the order of the subscriptions.
BeginRenderFrame ==
    /\ mounted
    /\ renderPending = <<>>
    /\ renderPending' = renderOrder
    /\ handsRead' = [c \in HandReaders |-> {}]
    /\ UNCHANGED <<mounted, trackerVars, audioVars, colorVars>>
    /\ UNCHANGED <<handsDataProxy, cursors, lights, renderOrder>>

\* The JSX order of Experience, with the callback of Experience itself last:
\* the children subscribe before their parent.
ChildrenFirst ==
    <<"AudioManager", "ColorSlices", "CursorLeft", "CursorRight", "ReactiveLighting",
      "Experience">>

\* Experience, its cursors and lights, the instance transforms and the
\* theremin parameters as constructed, between two render frames.
SceneAsConstructed ==
    /\ retargets = NoRetargets
    /\ instanceMatrix = [i \in 0..(CONFIG.sliceCount - 1) |-> InitialTransform]
    /\ handsDataProxy = InitialInputData.hands
    /\ cursors = [left |-> InitialCursor, right |-> InitialCursor]
    /\ lights = InitialLights
    /\ renderOrder = ChildrenFirst
    /\ renderPending = <<>>
    /\ handsRead = [c \in HandReaders |-> {}]

---------------------------------------------------------------------------
(* Initial state: the components as constructed                            *)

Init ==
    /\ mounted = TRUE
    /\ status = "Initializing AI..."
    /\ trackers = <<NewTracker>>
    /\ srcObject = 0
    /\ onloadeddata = 0
    /\ cameraStreams = <<>>
    /\ videoTime = 0
    /\ lastVideoTime = -1
    /\ handResults = <<>>
    /\ faceResults = <<>>
    /\ inputData = InitialInputData
    /\ detectedAt = {}
    /\ repeatedTime = FALSE
    /\ warnings = 0
    /\ audioMode = "OFF"
    /\ ctxState = "suspended"
    /\ audioEffects = <<NewEffect("OFF", "done")>>
    /\ nodeRefs = NullRefs
    /\ thereminNodes = <<>>
    /\ micStreams = <<>>
    /\ dataArray = [i \in 1..frequencyBinCount |-> 0]
    /\ audioData = Silence
    /\ audioFrame = 0
    /\ springs = InitialSprings
    /\ targetPalette = "DEFAULT"
    /\ currentPalette = PaletteColors("DEFAULT")
    /\ instanceColor = [i \in 0..(CONFIG.sliceCount - 1) |->
                            PaletteColors("DEFAULT")[(i % 5) + 1]]
    /\ material = InitialMaterial
    /\ frame = 0
    /\ SceneAsConstructed

---------------------------------------------------------------------------
(* The tracker alone: every detection result of the bounded sets           *)

NextTracker ==
    \/ VisionLoaded(1)
    \/ DetectorsCreated(1)
    \/ SetupFails(1)
    \/ CameraGranted(1)
    \/ LoadedData
    \/ \E d \in DetectionResults : PlayResolved(1, Returns(d[1], d[2]))
    \/ PlayRejected(1)
    \/ VideoAdvance
    \/ \E d \in DetectionResults : PredictWebcam(d[1], d[2])
    \/ PredictWebcamThrows
    \/ PredictWebcamStale

SpecTracker == Init /\ [][NextTracker]_vars

\* The detected hand that fills the slot of `label`: the last one so labelled.
LastLabelled(label) ==
    LET idx == {i \in 1..Len(handResults) : handResults[i].handedness = label}
    IN  handResults[CHOOSE i \in idx : \A j \in idx : j <= i]

TipDistance(h) == Distance(h.indexTip, h.thumbTip)

\* C2: with no detected hand both slots are absent; a hand labelled Left
\* fills the left slot and one labelled Right the right slot; of two hands
\* with the same label the second fills the slot and the other slot stays
\* absent.
C2_HandAssignment ==
    LET n == Len(handResults)
        l == inputData.hands.left
        r == inputData.hands.right
    IN  /\ n = 0 => ~l.present /\ ~r.present
        /\ n = 1 =>
             IF handResults[1].handedness = "Left"
             THEN l = HandOf(handResults[1]) /\ ~r.present
             ELSE r = HandOf(handResults[1]) /\ ~l.present
        /\ n = 2 =>
             LET h1 == handResults[1]
                 h2 == handResults[2]
             IN  /\ (h1.handedness = "Left" /\ h2.handedness = "Right")
                       => l = HandOf(h1) /\ r = HandOf(h2)
                 /\ (h1.handedness = "Right" /\ h2.handedness = "Left")
                       => l = HandOf(h2) /\ r = HandOf(h1)
                 /\ (h1.handedness = "Left" /\ h2.handedness = "Left")
                       => l = HandOf(h2) /\ ~r.present
                 /\ (h1.handedness = "Right" /\ h2.handedness = "Right")
                       => r = HandOf(h2) /\ ~l.present

\* C2 witness: two different hands, both labelled Left, were detected and the
\* second one was published in the left slot.
C2_Witness ==
    /\ Len(handResults) = 2
    /\ handResults[1].handedness = "Left"
    /\ handResults[2].handedness = "Left"
    /\ HandOf(handResults[1]) # HandOf(handResults[2])
    /\ inputData.hands.left = HandOf(handResults[2])
    /\ ~inputData.hands.right.present

PinchLaw(pinch, d) ==
    /\ 0 <= pinch /\ pinch <= One
    /\ d <= 200 => pinch = 0
    /\ d >= 1700 => pinch = One
    /\ d = 950 => 2 * pinch = One
    /\ (200 < d /\ d < 1700) => pinch * 1500 = (d - 200) * One

\* C3: the published pinch of a present hand is clamp((d - 0.02)/0.15, 0, 1)
\* of its tip distance d: 0 up to 0.02, 1 from 0.17, 0.5 at 0.095, linear in
\* between, never outside [0,1].
C3_PinchFormula ==
    /\ inputData.hands.left.present =>
          PinchLaw(inputData.hands.left.pinch, TipDistance(LastLabelled("Left")))
    /\ inputData.hands.right.present =>
          PinchLaw(inputData.hands.right.pinch, TipDistance(LastLabelled("Right")))

\* C3 witness: hands published at d = 0.095 (pinch 0.5) and at d = 0.2 (pinch 1).
C3_Witness ==
    /\ inputData.hands.left.present
    /\ inputData.hands.right.present
    /\ TipDistance(LastLabelled("Left")) = 950
    /\ 2 * inputData.hands.left.pinch = One
    /\ Len(handResults) = 2

\* C4 (as claimed): every present hand has x and y in [-1,1].
C4_HandRange ==
    \A h \in {inputData.hands.left, inputData.hands.right} :
        h.present => /\ -One <= h.x /\ h.x <= One
                     /\ -One <= h.y /\ h.y <= One

Has(name) == name \in DOMAIN faceResults[1]

\* C5: a missing blendshape category counts as 0, so the three scores are
\* always defined, and the face is present exactly when the detector
\* returned a blendshape list.
C5_BlendshapeFailSoft ==
    LET f == inputData.face
    IN  /\ f.present <=> Len(faceResults) > 0
        /\ f.smile \in 0..One /\ f.mouthOpen \in 0..One /\ f.browDown \in 0..One
        /\ Len(faceResults) > 0 =>
             LET s == faceResults[1]
             IN  /\ (~Has("mouthSmileLeft") /\ ~Has("mouthSmileRight")) => f.smile = 0
                 /\ (Has("mouthSmileLeft") /\ ~Has("mouthSmileRight"))
                       => 2 * f.smile = s["mouthSmileLeft"]
                 /\ (~Has("mouthSmileLeft") /\ Has("mouthSmileRight"))
                       => 2 * f.smile = s["mouthSmileRight"]
                 /\ (Has("mouthSmileLeft") /\ Has("mouthSmileRight"))
                       => 2 * f.smile = s["mouthSmileLeft"] + s["mouthSmileRight"]
                 /\ f.mouthOpen = (IF Has("jawOpen") THEN s["jawOpen"] ELSE 0)
                 /\ (~Has("browDownLeft") /\ ~Has("browDownRight")) => f.browDown = 0
                 /\ (Has("browDownLeft") /\ ~Has("browDownRight"))
                       => 2 * f.browDown = s["browDownLeft"]
                 /\ (~Has("browDownLeft") /\ Has("browDownRight"))
                       => 2 * f.browDown = s["browDownRight"]
                 /\ (Has("browDownLeft") /\ Has("browDownRight"))
                       => 2 * f.browDown = s["browDownLeft"] + s["browDownRight"]

\* C5 witness: a face whose table holds only mouthSmileRight and browDownLeft
\* was published, with the missing partners counted as 0.
C5_Witness ==
    /\ Len(faceResults) = 1
    /\ DOMAIN faceResults[1] = {"mouthSmileRight", "browDownLeft"}
    /\ inputData.face.present
    /\ inputData.face.smile = One \div 2
    /\ inputData.face.mouthOpen = 0
    /\ inputData.face.browDown = 4000

---------------------------------------------------------------------------
(* The slices under a changing face: the tracker publishes a few frames     *)
(* and ColorSlices renders a few frames, in any order                       *)

MaxSliceVideo  == 1
MaxSliceFrames == 3

\* Faces with no hand, and one frame with both hands and a smile.
SliceDetections ==
    {<<<<>>, fr>> : fr \in {<<>>,
                            <<Shapes(0, 0, 0, 0, 0)>>,
                            <<Shapes(6000, 6000, 6000, 6000, 6000)>>,
                            <<Shapes(4000, 4000, 2000, 3000, 3000)>>,
                            <<Shapes(4000, 4000, 3000, 8000, 8000)>>,
                            <<Shapes(2000, 2000, 2000, 8000, 0)>>}}
      \cup {<< <<Hand("Right", Pt(10000, 5000), Pt(570, 760)),
                 Hand("Left", Pt(5000, 0), Pt(570, 760))>>,
               <<Shapes(10000, 0, 0, 0, 0)>> >>}

NextSlices ==
    \/ VisionLoaded(1)
    \/ DetectorsCreated(1)
    \/ CameraGranted(1)
    \/ LoadedData
    \/ \E d \in SliceDetections : PlayResolved(1, Returns(d[1], d[2]))
    \/ (videoTime < MaxSliceVideo /\ VideoAdvance)
    \/ \E d \in SliceDetections : PredictWebcam(d[1], d[2])
    \/ (frame < MaxSliceFrames /\ ColorSlicesFrame)

SpecSlices == Init /\ [][NextSlices]_vars

\* The cascade as the claim states it, for the face a frame reads.
MoodOf(face, palette) ==
    /\ ~face.present => palette = "DEFAULT"
    /\ (face.present /\ face.smile > 4000) => palette = "JOY"
    /\ (face.present /\ face.smile <= 4000 /\ face.mouthOpen > 2000)
          => palette = "SURPRISE"
    /\ (face.present /\ face.smile <= 4000 /\ face.mouthOpen <= 2000
          /\ face.browDown > 3000) => palette = "MOODY"
    /\ (face.present /\ face.smile <= 4000 /\ face.mouthOpen <= 2000
          /\ face.browDown <= 3000) => palette = "DEFAULT"

\* C1: every render frame selects the palette by the priority cascade
\* JOY (smile > 0.4) > SURPRISE (mouthOpen > 0.2) > MOODY (browDown > 0.3)
\* > DEFAULT applied to the current face alone; an absent face selects
\* DEFAULT whatever its scores and whatever was selected before.
C1_MoodCascade ==
    [][frame' = frame + 1 => MoodOf(inputData.face, targetPalette')]_vars

\* C1 witness: a frame ran on a face exceeding all three thresholds after a
\* frame that had selected another palette, and JOY is selected.
C1_Witness ==
    /\ frame >= 2
    /\ inputData.face.present
    /\ inputData.face.smile > 4000
    /\ inputData.face.mouthOpen > 2000
    /\ inputData.face.browDown > 3000
    /\ targetPalette = "JOY"
    /\ currentPalette[1] # PaletteColors("JOY")[1]
    /\ instanceColor[0].g > instanceColor[55].g

\* C8 (as claimed): in one render frame every slot of currentPalette moves
\* toward its target slot by the factor 0.15, once.
C8_LerpOncePerFrame ==
    [][frame' = frame + 1 =>
          \A i \in 1..5 :
             currentPalette'[i] =
                ColorLerp(currentPalette[i], PaletteColors(targetPalette')[i], 15)]_vars

---------------------------------------------------------------------------
(* Palette blending from a palette at rest                                  *)

PaletteNames == {"DEFAULT", "JOY", "SURPRISE", "MOODY"}

PublishedAtStart(hr, fr) ==
    /\ mounted = TRUE
    /\ status = "Active (Hands + Face)"
    /\ trackers = <<[active |-> TRUE, stage |-> "looping",
                     handLandmarker |-> "open", faceLandmarker |-> "open", raf |-> TRUE]>>
    /\ srcObject = 1
    /\ onloadeddata = 1
    /\ cameraStreams = <<[owner |-> 1, tracks |-> "live"]>>
    /\ videoTime = 0
    /\ lastVideoTime = 0
    /\ detectedAt = {<<1, 0>>}
    /\ repeatedTime = FALSE
    /\ warnings = 0
    /\ handResults = hr
    /\ faceResults = fr
    /\ inputData = NewData(hr, fr)

AudioAtStart ==
    /\ audioMode = "OFF"
    /\ ctxState = "suspended"
    /\ audioEffects = <<NewEffect("OFF", "done")>>
    /\ nodeRefs = NullRefs
    /\ thereminNodes = <<>>
    /\ micStreams = <<>>
    /\ dataArray = [i \in 1..frequencyBinCount |-> 0]
    /\ audioData = Silence
    /\ audioFrame = 0

\* The slices as constructed, except that the current palette rests on one of
\* the four named palettes; the tracker has published one face.
InitBlend ==
    /\ \E fr \in {<<>>, <<Shapes(6000, 6000, 6000, 6000, 6000)>>,
                  <<Shapes(0, 0, 3000, 0, 0)>>, <<Shapes(0, 0, 0, 8000, 8000)>>,
                  <<Shapes(0, 0, 0, 0, 0)>>} : PublishedAtStart(<<>>, fr)
    /\ AudioAtStart
    /\ springs = InitialSprings
    /\ targetPalette = "DEFAULT"
    /\ \E n \in PaletteNames :
          /\ currentPalette = PaletteColors(n)
          /\ instanceColor = [i \in 0..(CONFIG.sliceCount - 1) |->
                                 PaletteColors(n)[(i % 5) + 1]]
    /\ material = InitialMaterial
    /\ frame = 0
    /\ SceneAsConstructed

SpecBlend == InitBlend /\ [][ColorSlicesFrame]_vars

\* C9: a render frame that finds every slot of currentPalette equal to the
\* slot of the palette it selects leaves currentPalette unchanged.
C9_BlendFixedPoint ==
    [][(frame' = frame + 1 /\ currentPalette = PaletteColors(targetPalette'))
          => currentPalette' = currentPalette]_vars

\* C9 witness: frames ran on a smiling face with the current palette equal
\* to the JOY palette they select.
C9_Witness ==
    /\ frame >= 2
    /\ targetPalette = "JOY"
    /\ NextPalette(inputData.face) = "JOY"
    /\ currentPalette = PaletteColors("JOY")

---------------------------------------------------------------------------
(* Scenario runs: one published frame held for ever, springs as constructed *)

ScenarioHands ==
    {<<>>,
     <<Hand("Left", Pt(5000, 0), Pt(0, 0))>>,
     <<Hand("Right", Pt(5000, 0), Pt(570, 760))>>,
     <<Hand("Left", Pt(0, 10000), Pt(0, 0)), Hand("Right", Pt(10000, 5000), Pt(0, 0))>>}

InitScenario ==
    /\ \E hr \in ScenarioHands : PublishedAtStart(hr, <<>>)
    /\ AudioAtStart
    /\ springs = InitialSprings
    /\ targetPalette = "DEFAULT"
    /\ currentPalette = PaletteColors("DEFAULT")
    /\ instanceColor = [i \in 0..(CONFIG.sliceCount - 1) |->
                            PaletteColors("DEFAULT")[(i % 5) + 1]]
    /\ material = InitialMaterial
    /\ frame = 0
    /\ SceneAsConstructed

SpecScenario == InitScenario /\ [][ColorSlicesFrame]_vars

\* Scenario 1: left hand at (x=0, y=1, pinch=0), right hand and face absent,
\* mode OFF.
Scenario1 ==
    /\ inputData.hands.left = [present |-> TRUE, x |-> 0, y |-> One, pinch |-> 0]
    /\ ~inputData.hands.right.present
    /\ ~inputData.face.present
    /\ audioMode = "OFF"

WithinOnePercent(s) == 100 * Abs(s.value - s.target) <= Abs(s.target)

\* C7: in scenario 1 every frame sets the targets height 30, twist 0 and
\* radius 1.0, and from frame 50 on every spring is within 1% of its target.
C7_Scenario1 ==
    (Scenario1 /\ frame >= 1) =>
        /\ springs.stackHeight.target = 30 * One
        /\ 2 * springs.stackHeight.target = 5 * CONFIG.stackHeight * One
        /\ springs.twist.target = 0
        /\ springs.radiusScale.target = One
        /\ frame >= 50 => \A n \in SpringNames : WithinOnePercent(springs[n])

\* C7 witness: frame 50 of scenario 1, the height spring within 1% of 30 and
\* still moving.
C7_Witness ==
    /\ Scenario1
    /\ frame = 50
    /\ WithinOnePercent(springs.stackHeight)
    /\ springs.stackHeight.value # springs.stackHeight.target
    /\ springs.stackHeight.velocity # 0

---------------------------------------------------------------------------
(* Settling: arbitrary spring states, one published frame held for ever,    *)
(* no audio                                                                 *)

Epsilon == 50

Displaced(s, value, velocity) == [s EXCEPT !.value = value, !.velocity = velocity]

\* Spring states a run can be in when the hands stop moving.
SettleStarts ==
    { [stackHeight |-> Displaced(InitialSprings.stackHeight, 30 * One, 2 * One),
       twist       |-> Displaced(InitialSprings.twist, 12 * One, -One),
       radiusScale |-> Displaced(InitialSprings.radiusScale, 18000, 5000),
       chaos       |-> Displaced(InitialSprings.chaos, One, 3000)],
      [stackHeight |-> Displaced(InitialSprings.stackHeight, 6 * One, -3 * One),
       twist       |-> Displaced(InitialSprings.twist, -12 * One, One),
       radiusScale |-> Displaced(InitialSprings.radiusScale, 2000, -5000),
       chaos       |-> Displaced(InitialSprings.chaos, 5000, -2000)],
      [stackHeight |-> Displaced(InitialSprings.stackHeight, 45 * One, 5 * One),
       twist       |-> Displaced(InitialSprings.twist, 20 * One, 2 * One),
       radiusScale |-> Displaced(InitialSprings.radiusScale, -One, -One),
       chaos       |-> Displaced(InitialSprings.chaos, 2 * One, One)],
      [stackHeight |-> Displaced(InitialSprings.stackHeight, 0, 0),
       twist       |-> Displaced(InitialSprings.twist, 3 * One, 0),
       radiusScale |-> Displaced(InitialSprings.radiusScale, 3 * One, 0),
       chaos       |-> Displaced(InitialSprings.chaos, -One, 0)] }

InitSettle ==
    /\ \E hr \in ScenarioHands : PublishedAtStart(hr, <<>>)
    /\ AudioAtStart
    /\ springs \in SettleStarts
    /\ targetPalette = "DEFAULT"
    /\ currentPalette = PaletteColors("DEFAULT")
    /\ instanceColor = [i \in 0..(CONFIG.sliceCount - 1) |->
                            PaletteColors("DEFAULT")[(i % 5) + 1]]
    /\ material = InitialMaterial
    /\ frame = 0
    /\ SceneAsConstructed

SpecSettle == InitSettle /\ [][ColorSlicesFrame]_vars

NearTarget(s) == Abs(s.value - s.target) < Epsilon

\* C6: with the target fixed and no impulse, each of the four springs comes
\* within Epsilon of its target within FrameCap frames and stays there (the
\* frame counter stays at FrameCap from then on).
C6_SpringsSettle ==
    frame = FrameCap => \A n \in SpringNames : NearTarget(springs[n])

\* C6 witness: after a frame, all four springs are away from their targets
\* by more than 0.1 and moving.
C6_Witness ==
    /\ frame >= 1
    /\ \A n \in SpringNames :
          /\ Abs(springs[n].value - springs[n].target) > One \div 10
          /\ springs[n].velocity # 0

---------------------------------------------------------------------------
(* Audio: mode switches and arbitrary spectra for the first frames; then,   *)
(* in MIC mode, a silent or a full spectrum is held for ever                *)

MaxAudioFrames == 2
MaxAudioRuns == 3

NextAudio ==
    \/ \E m \in AudioModes, stopThrows \in BOOLEAN :
          /\ audioFrame < MaxAudioFrames
          /\ Len(audioEffects) < MaxAudioRuns
          /\ SetAudioMode(m, stopThrows)
    \/ (audioFrame < MaxAudioFrames /\ ContextResumes)
    \/ \E e \in EffectIds, resumed \in BOOLEAN :
          audioFrame < MaxAudioFrames /\ ResumeSettled(e, resumed)
    \/ \E e \in EffectIds : audioFrame < MaxAudioFrames /\ MicGranted(e)
    \/ \E e \in EffectIds : audioFrame < MaxAudioFrames /\ MicDenied(e)
    \/ \E bins \in Spectra : audioFrame < MaxAudioFrames /\ AudioManagerFrame(bins)
    \/ /\ audioFrame >= MaxAudioFrames
       /\ audioMode = "MIC"
       /\ dataArray \in {AllBins(0), AllBins(255)}
       /\ AudioManagerFrame(dataArray)

SpecAudio == Init /\ [][NextAudio]_vars

Features == {audioData.low, audioData.high, audioData.vol}

\* C10: low, high and vol stay within [0,1] under every sequence of mode
\* switches and spectra; in MIC mode a spectrum held at 255 brings each of
\* them to 1 and a spectrum held at 0 brings each of them to 0 (within
\* Epsilon, by frame AudioFrameCap and from then on).
C10_AudioFeatures ==
    /\ \A f \in Features : 0 <= f /\ f <= One
    /\ (audioFrame = AudioFrameCap /\ audioMode = "MIC") =>
          /\ dataArray = AllBins(255) => \A f \in Features : One - f < Epsilon
          /\ dataArray = AllBins(0)   => \A f \in Features : f < Epsilon

\* C10 witness: MIC mode, the spectrum held at 255 up to frame AudioFrameCap,
\* and the features have risen to within Epsilon of 1.
C10_Witness ==
    /\ audioFrame = AudioFrameCap
    /\ audioMode = "MIC"
    /\ dataArray = AllBins(255)
    /\ audioData.low < One
    /\ \A f \in Features : One - f < Epsilon

---------------------------------------------------------------------------
(* Decay: the frames of AudioManager in OFF mode, from any features         *)

\* The tracker as constructed (its setup has not resolved yet).
TrackerAsConstructed ==
    /\ mounted = TRUE
    /\ status = "Initializing AI..."
    /\ trackers = <<NewTracker>>
    /\ srcObject = 0
    /\ onloadeddata = 0
    /\ cameraStreams = <<>>
    /\ videoTime = 0
    /\ lastVideoTime = -1
    /\ handResults = <<>>
    /\ faceResults = <<>>
    /\ inputData = InitialInputData
    /\ detectedAt = {}
    /\ repeatedTime = FALSE
    /\ warnings = 0

\* The slices as constructed.
SlicesAsConstructed ==
    /\ springs = InitialSprings
    /\ targetPalette = "DEFAULT"
    /\ currentPalette = PaletteColors("DEFAULT")
    /\ instanceColor = [i \in 0..(CONFIG.sliceCount - 1) |->
                            PaletteColors("DEFAULT")[(i % 5) + 1]]
    /\ material = InitialMaterial
    /\ frame = 0
    /\ SceneAsConstructed

\* Feature values a frame callback can find when it first sees the mode OFF.
DecayStarts == {0, 1, 9, 10, One \div 2, One}

InitDecay ==
    /\ TrackerAsConstructed
    /\ SlicesAsConstructed
    /\ audioMode = "OFF"
    /\ ctxState = "suspended"
    /\ audioEffects = <<NewEffect("OFF", "done")>>
    /\ nodeRefs = NullRefs
    /\ thereminNodes = <<>>
    /\ micStreams = <<>>
    /\ dataArray = [i \in 1..frequencyBinCount |-> 0]
    /\ audioData \in [low : DecayStarts, high : DecayStarts, vol : DecayStarts]
    /\ audioFrame = 0

SpecDecay == InitDecay /\ [][AudioManagerFrame(AllBins(0))]_vars

\* C11: while the mode is OFF, every frame leaves each of low, high and vol
\* at most at its previous value and at least at 0, whatever the values were
\* when OFF was entered; none of them ever increases.
C11_OffDecay ==
    [][audioMode' = "OFF" =>
          /\ 0 <= audioData'.low  /\ audioData'.low  <= audioData.low
          /\ 0 <= audioData'.high /\ audioData'.high <= audioData.high
          /\ 0 <= audioData'.vol  /\ audioData'.vol  <= audioData.vol]_vars

\* C11 witness: two frames ran in OFF mode on features that started at 0.5,
\* 1 and 0: they are 0.405, 0.81 and 0.
C11_Witness ==
    /\ audioMode = "OFF"
    /\ audioFrame = 2
    /\ audioData = [low |-> 4050, high |-> 8100, vol |-> 0]

---------------------------------------------------------------------------
(* Decay against snapping, under SpecAudio                                  *)

\* C12: in OFF mode, and in MIC or THEREMIN mode while nothing feeds the
\* analyser, a frame multiplies each feature by 0.9, and no step sets a
\* feature to 0 at once: the switch to OFF leaves the features as they are
\* (so that the next frame leaves 0.9 of them).
C12_DecayNeverSnaps ==
    [][/\ (audioMode # "OFF" /\ audioMode' = "OFF") => audioData' = audioData
       /\ (audioFrame' = audioFrame + 1 /\ (audioMode = "OFF" \/ ~AnalyserFed))
             => audioData' = Decay(audioData)]_vars

---------------------------------------------------------------------------
(* The audio nodes under mode switches, asynchronous completions and        *)
(* removal of the component                                                 *)

\* Bound on the runs of the mode effect (the first run is the one of the
\* mount).
MaxEffectRuns == 4

NextNodes ==
    \/ \E m \in AudioModes, stopThrows \in BOOLEAN :
          Len(audioEffects) < MaxEffectRuns /\ SetAudioMode(m, stopThrows)
    \/ ContextResumes
    \/ \E e \in EffectIds, resumed \in BOOLEAN : ResumeSettled(e, resumed)
    \/ \E e \in EffectIds : MicGranted(e)
    \/ \E e \in EffectIds : MicDenied(e)
    \/ \E videoAttached \in BOOLEAN : Unmount(videoAttached)

SpecNodes == Init /\ [][NextNodes]_vars

Oscillators == {"oscBass", "oscLead", "vibrato"}
Gains == {"gainBass", "gainLead", "vibratoGain"}

\* The theremin sets with a running oscillator, the streams with live tracks.
LiveSets == {k \in 1..Len(thereminNodes) : \E o \in Oscillators : thereminNodes[k][o] = "running"}
LiveStreams == {k \in 1..Len(micStreams) : micStreams[k].tracks = "live"}

\* Every node and stream that existed before the step is shut down after it.
AllShutDown ==
    /\ \A k \in 1..Len(thereminNodes) :
          /\ \A o \in Oscillators : thereminNodes'[k][o] = "stopped"
          /\ \A g \in Gains : thereminNodes'[k][g] = "disconnected"
    /\ \A k \in 1..Len(micStreams) :
          /\ micStreams'[k].tracks = "stopped"
          /\ micStreams'[k].source # "connected"

\* C13: a mode change stops the oscillators, disconnects the gains and the
\* microphone source and stops the microphone tracks of the previous mode in
\* the same step, before a node of the new mode exists; hence no oscillator
\* runs in OFF or MIC mode, no microphone stream is live in OFF or THEREMIN
\* mode, and at most one theremin set and one microphone stream is live.
C13_TeardownBeforeSetup ==
    /\ [](/\ audioMode \in {"OFF", "MIC"} => LiveSets = {}
          /\ audioMode \in {"OFF", "THEREMIN"} => LiveStreams = {}
          /\ Cardinality(LiveSets) <= 1
          /\ Cardinality(LiveStreams) <= 1)
    /\ [][audioMode' # audioMode => AllShutDown]_vars

\* C13 witness: MIC mode after THEREMIN: the oscillators that were created
\* are stopped and the microphone stream is live.
C13_Witness ==
    /\ audioMode = "MIC"
    /\ Len(thereminNodes) = 1
    /\ LiveSets = {}
    /\ LiveStreams # {}

\* C14: a mode change completes its cleanup and its setup whether or not
\* stop() throws on a stale oscillator: every node the refs held is shut
\* down, the stream ref is null, and the run of the new mode is at the await
\* (or end) setupAudio reaches for that mode, with the features zeroed for OFF
\* and the oscillators created for THEREMIN on a running context.
C14_CleanupTotal ==
    [][audioMode' # audioMode =>
          /\ \A o \in Oscillators :
                nodeRefs[o] # 0 => thereminNodes'[nodeRefs[o]][o] = "stopped"
          /\ \A g \in Gains :
                nodeRefs[g] # 0 => thereminNodes'[nodeRefs[g]][g] = "disconnected"
          /\ nodeRefs.micSource # 0 => micStreams'[nodeRefs.micSource].source = "disconnected"
          /\ nodeRefs.micStream # 0 => micStreams'[nodeRefs.micStream].tracks = "stopped"
          /\ nodeRefs'.micStream = 0
          /\ Len(audioEffects') = Len(audioEffects) + 1
          /\ audioEffects'[Len(audioEffects')] = NewEffect(audioMode', FirstAwait(audioMode'))
          /\ audioMode' = "OFF" => audioData' = Silence
          /\ (audioMode' = "THEREMIN" /\ ctxState = "running") =>
                /\ Len(thereminNodes') = Len(thereminNodes) + 1
                /\ nodeRefs'.oscBass = Len(thereminNodes')]_vars

\* C14 witness: the refs of a theremin set were cleaned up on two later mode
\* changes (the second time all its oscillators were already stopped), and
\* the setup of the last mode is under way.
C14_Witness ==
    /\ Len(audioEffects) = 4
    /\ audioEffects[2].mode = "THEREMIN"
    /\ nodeRefs.oscBass = 1
    /\ thereminNodes[1].oscBass = "stopped"
    /\ audioMode = "MIC"
    /\ audioEffects[4].stage = "getUserMedia"

\* C15: when the wait of a run that is no longer active completes, no
\* oscillator set is created, no ref changes, and a stream it was granted has
\* its tracks stopped and no source attached.
C15_StaleSetupNoOp ==
    [][\A e \in EffectIds :
          (~audioEffects[e].active /\ audioEffects'[e].stage # audioEffects[e].stage) =>
             /\ thereminNodes' = thereminNodes
             /\ nodeRefs' = nodeRefs
             /\ \A k \in 1..Len(micStreams') :
                   k > Len(micStreams) =>
                      micStreams'[k].tracks = "stopped" /\ micStreams'[k].source # "connected"
             /\ \A k \in 1..Len(micStreams) : micStreams'[k] = micStreams[k]]_vars

\* C15 witness: a stream was granted to a MIC setup that had been superseded
\* (its tracks were stopped, no source was made for it), and a THEREMIN setup
\* that had been superseded ended without creating a node.
C15_Witness ==
    /\ \E k \in 1..Len(micStreams) : micStreams[k].source = "none"
    /\ \E e \in EffectIds :
          /\ audioEffects[e].mode = "THEREMIN"
          /\ ~audioEffects[e].active
          /\ audioEffects[e].stage = "done"
    /\ thereminNodes = <<>>

\* C18: after the audio bridge is removed, no oscillator runs and no
\* microphone track is live.
C18_TeardownReleasesAudio ==
    ~mounted => (LiveSets = {} /\ LiveStreams = {})

---------------------------------------------------------------------------
(* The tracker under restarts (every mode change runs its effect again),    *)
(* removal, and asynchronous completions in any order                       *)

\* Bound on the runs of the HandTracker effect.
MaxTrackerRuns == 2

\* What a tick of these runs can get from the detectors.
LifecycleOutcomes ==
    {Throws,
     Returns(<<>>, <<>>),
     Returns(<<Hand("Left", Pt(5000, 0), Pt(0, 0))>>, <<Shapes(6000, 6000, 0, 0, 0)>>)}

NextLifecycle ==
    \/ \E t \in TrackerIds : VisionLoaded(t)
    \/ \E t \in TrackerIds : DetectorsCreated(t)
    \/ \E t \in TrackerIds : SetupFails(t)
    \/ \E t \in TrackerIds : CameraGranted(t)
    \/ \E t \in TrackerIds : CameraUnavailable(t)
    \/ LoadedData
    \/ \E t \in TrackerIds, o \in LifecycleOutcomes : PlayResolved(t, o)
    \/ \E t \in TrackerIds : PlayRejected(t)
    \/ VideoAdvance
    \/ \E o \in LifecycleOutcomes \ {Throws} : PredictWebcam(o.hr, o.fr)
    \/ PredictWebcamThrows
    \/ PredictWebcamStale
    \/ \E t \in TrackerIds : PredictWebcamReturns(t)
    \/ \E m \in {"OFF", "MIC"} : Len(trackers) < MaxTrackerRuns /\ SetAudioMode(m, FALSE)
    \/ \E videoAttached \in BOOLEAN : Unmount(videoAttached)

SpecLifecycle == Init /\ [][NextLifecycle]_vars

\* C16: a step of a run that was torn down before it (a completion of an
\* await or of an event of its setup, or a tick of its frame loop) changes
\* no status text, starts no frame loop, invokes no detector and publishes
\* nothing; no tick of a torn-down run is ever pending.
C16_StaleCompletionsInert ==
    /\ [](\A t \in TrackerIds : trackers[t].raf => trackers[t].active)
    /\ [][\A t \in TrackerIds :
            (~trackers[t].active /\ trackers'[t] # trackers[t]) =>
                (status' = status /\ ~trackers'[t].raf /\ UNCHANGED detectVars)]_vars

\* C17: a run that is not active holds no open detector and no camera stream
\* with live tracks.
C17_TeardownReleasesTracker ==
    /\ \A t \in TrackerIds :
          ~trackers[t].active =>
              trackers[t].handLandmarker # "open" /\ trackers[t].faceLandmarker # "open"
    /\ \A k \in 1..Len(cameraStreams) :
          cameraStreams[k].tracks = "live" => trackers[cameraStreams[k].owner].active

C20_ExceptionsKeepLoop ==
    [][/\ warnings' # warnings =>
             /\ inputData' = inputData
             /\ \E t \in TrackerIds : trackers'[t].raf
             /\ \A t \in TrackerIds : trackers[t].raf => trackers'[t].raf
       /\ \A t \in TrackerIds :
             (trackers[t].raf /\ ~trackers'[t].raf) =>
                 \/ trackers[t].active /\ ~trackers'[t].active
                 \/ ~mounted]_vars

\* C20 witness: two ticks in a row threw, the frame published before them is
\* still in place and the loop of the active run is still scheduled.
C20_Witness ==
    /\ warnings = MaxWarnings
    /\ inputData.hands.left.present
    /\ handResults # <<>>
    /\ \E t \in TrackerIds : trackers[t].active /\ trackers[t].raf

---------------------------------------------------------------------------
(* Camera failures and mode changes, under SpecLifecycle                    *)

AllAbsent(data) ==
    /\ ~data.hands.left.present
    /\ ~data.hands.right.present
    /\ ~data.face.present

\* C21: when the camera request of an active setup fails (getUserMedia
\* rejects, or the camera API is missing), the status shows an error and the
\* published input frame has left, right and face absent, in the first setup
\* and in any later one.
C21_CameraFailureClearsInput ==
    [][\A t \in TrackerIds :
          (trackers[t].active /\ trackers[t].stage = "camera"
             /\ trackers'[t].stage \in {"failed", "returned"})
          => (status' = "Error" /\ AllAbsent(inputData'))]_vars

\* C28: a change of the audio mode leaves the runs of the tracker effect,
\* their detectors and the camera streams as they are.
C28_ModeChangeKeepsTracker ==
    [][audioMode' # audioMode =>
          (trackers' = trackers /\ cameraStreams' = cameraStreams)]_vars

---------------------------------------------------------------------------
(* The scene: render frames that call every callback once, in the order of  *)
(* the subscriptions, with the tracker publishing between two frames        *)

MaxSceneFrames == 2
MaxSceneVideo  == 1

\* No hand and no face; one hand each with a face that passes every
\* threshold or only the later ones; both hands; a face on the thresholds.
SceneDetections ==
    { <<<<>>, <<>>>>,
      <<<<Hand("Left", Pt(5000, 0), Pt(0, 100))>>, <<Shapes(6000, 6000, 6000, 6000, 6000)>>>>,
      <<<<Hand("Right", Pt(0, 10000), Pt(570, 760))>>, <<Shapes(2000, 2000, 3000, 8000, 8000)>>>>,
      <<<<Hand("Left", Pt(10000, 5000), Pt(1200, 1600)), Hand("Right", Pt(5000, 0), Pt(0, 0))>>,
        <<Shapes(4000, 4000, 2000, 8000, 8000)>>>>,
      <<<<>>, <<Shapes(4000, 4000, 2000, 3000, 3000)>>>> }

\* The tracker after a change of the audio mode: the run that published
\* (hr, fr) was cleaned up and the next run has reached its frame loop (its
\* first tick found the video time it had already seen).
RestartedAtStart(hr, fr) ==
    /\ mounted = TRUE
    /\ status = "Active (Hands + Face)"
    /\ trackers = <<[active |-> FALSE, stage |-> "looping",
                     handLandmarker |-> "closed", faceLandmarker |-> "closed", raf |-> FALSE],
                    [active |-> TRUE, stage |-> "looping",
                     handLandmarker |-> "open", faceLandmarker |-> "open", raf |-> TRUE]>>
    /\ srcObject = 2
    /\ onloadeddata = 2
    /\ cameraStreams = <<[owner |-> 1, tracks |-> "stopped"], [owner |-> 2, tracks |-> "live"]>>
    /\ videoTime = 0
    /\ lastVideoTime = 0
    /\ detectedAt = {<<1, 0>>}
    /\ repeatedTime = FALSE
    /\ warnings = 0
    /\ handResults = hr
    /\ faceResults = fr
    /\ inputData = NewData(hr, fr)

\* The audio after the switch from OFF to THEREMIN has set up its nodes.
ThereminAtStart ==
    /\ audioMode = "THEREMIN"
    /\ ctxState = "running"
    /\ audioEffects = <<[mode |-> "OFF", active |-> FALSE, stage |-> "done"],
                        NewEffect("THEREMIN", "done")>>
    /\ nodeRefs = [NullRefs EXCEPT !.oscBass = 1, !.gainBass = 1, !.oscLead = 1,
                                   !.gainLead = 1, !.vibrato = 1, !.vibratoGain = 1]
    /\ thereminNodes = <<NewThereminNodes>>
    /\ micStreams = <<>>
    /\ dataArray = [i \in 1..frequencyBinCount |-> 0]
    /\ audioData = Silence
    /\ audioFrame = 0

\* The callback of Experience called before those of its children.
ParentFirst ==
    <<"Experience", "AudioManager", "ColorSlices", "CursorLeft", "CursorRight",
      "ReactiveLighting">>

\* The order of the subscriptions is the framework's: both are kept.
RenderOrders == {ChildrenFirst, ParentFirst}

InitScene ==
    /\ \E d \in SceneDetections :
          \/ PublishedAtStart(d[1], d[2]) /\ AudioAtStart
          \/ RestartedAtStart(d[1], d[2]) /\ ThereminAtStart
    /\ springs = InitialSprings
    /\ targetPalette = "DEFAULT"
    /\ currentPalette = PaletteColors("DEFAULT")
    /\ instanceColor = [i \in 0..(CONFIG.sliceCount - 1) |->
                            PaletteColors("DEFAULT")[(i % 5) + 1]]
    /\ material = InitialMaterial
    /\ frame = 0
    /\ retargets = NoRetargets
    /\ instanceMatrix = [i \in 0..(CONFIG.sliceCount - 1) |-> InitialTransform]
    /\ handsDataProxy = InitialInputData.hands
    /\ cursors = [left |-> InitialCursor, right |-> InitialCursor]
    /\ lights = InitialLights
    /\ renderOrder \in RenderOrders
    /\ renderPending = <<>>
    /\ handsRead = [c \in HandReaders |-> {}]

\* The render frame is about to call the callback `name`.
Due(name) == renderPending # <<>> /\ Head(renderPending) = name

NextScene ==
    \/ (frame < MaxSceneFrames /\ BeginRenderFrame)
    \/ (Due("Experience") /\ ExperienceFrame)
    \/ (Due("AudioManager")
          /\ \E bins \in {AllBins(0), AllBins(255)} : AudioManagerFrame(bins))
    \/ (Due("ColorSlices") /\ ColorSlicesFrame)
    \/ (Due("CursorLeft") /\ CursorFrame("left"))
    \/ (Due("CursorRight") /\ CursorFrame("right"))
    \/ (Due("ReactiveLighting") /\ ReactiveLightingFrame)
    \/ (renderPending = <<>> /\ videoTime < MaxSceneVideo /\ VideoAdvance)
    \/ (renderPending = <<>> /\ \E d \in SceneDetections : PredictWebcam(d[1], d[2]))

SpecScene == InitScene /\ [][NextScene]_vars

\* C22: an absent hand contributes nothing.  In a ColorSlices frame, a left
\* hand that is absent gives the height target 12 and the twist target 0, a
\* right hand that is absent gives the radius target 1.0, the chaos target 0
\* and no pinch in the ior target; the radius and chaos targets are those of
\* the right hand alone and the height and twist targets those of the left
\* hand alone.  In an AudioManager frame an absent hand moves no frequency
\* and no vibrato depth, and only sends its gain to 0.  A cursor is visible
\* exactly when its hand is present, and rests when it is absent.
C22_AbsentHandContributesNothing ==
    [][LET left  == inputData.hands.left
           right == inputData.hands.right
       IN  /\ (Due("ColorSlices") /\ renderPending' = Tail(renderPending)) =>
                 /\ ~left.present =>
                       /\ springs'.stackHeight.target = 12 * One
                       /\ springs'.twist.target = 0
                 /\ ~right.present =>
                       /\ springs'.radiusScale.target = One
                       /\ springs'.chaos.target = 0
                       /\ material'.ior =
                             MathLerp(material.ior,
                                      (One + One \div 2)
                                         + 10 * Abs(springs'.radiusScale.velocity), 1)
                 /\ springs'.radiusScale.target = SpringTargets(AbsentHand, right).radiusScale
                 /\ springs'.chaos.target = SpringTargets(AbsentHand, right).chaos
                 /\ springs'.stackHeight.target = SpringTargets(left, AbsentHand).stackHeight
                 /\ springs'.twist.target = SpringTargets(left, AbsentHand).twist
           /\ (Due("AudioManager") /\ renderPending' = Tail(renderPending)) =>
                 /\ ~handsDataProxy.left.present =>
                       /\ retargets'.bassFrequency = retargets.bassFrequency
                       /\ retargets'.bassGain \in {retargets.bassGain, Retarget(0, 10)}
                 /\ ~handsDataProxy.right.present =>
                       /\ retargets'.leadFrequency = retargets.leadFrequency
                       /\ retargets'.vibratoDepth = retargets.vibratoDepth
                       /\ retargets'.leadGain \in {retargets.leadGain, Retarget(0, 10)}
           /\ \A k \in {"left", "right"} :
                 (Due(IF k = "left" THEN "CursorLeft" ELSE "CursorRight")
                     /\ renderPending' = Tail(renderPending)) =>
                 /\ cursors'[k].visible = handsDataProxy[k].present
                 /\ ~handsDataProxy[k].present =>
                       /\ cursors'[k].position = cursors[k].position
                       /\ cursors'[k].intensity = 0]_vars

\* C22 witness: a render frame has ended with the left hand absent and the
\* right hand present: the left cursor is hidden, the right one shown, the
\* bass gain was sent to 0 and the lead retargeted, the twist target is 0 and
\* the chaos target 1.0.
C22_Witness ==
    /\ renderPending = <<>>
    /\ frame >= 1
    /\ ~inputData.hands.left.present /\ ~handsDataProxy.left.present
    /\ inputData.hands.right.present /\ handsDataProxy.right.present
    /\ ~cursors.left.visible
    /\ cursors.right.visible
    /\ retargets.bassGain = Retarget(0, 10)
    /\ retargets.leadGain = Retarget(3000, 5)
    /\ springs.twist.target = 0
    /\ springs.chaos.target = One

\* C23: a ColorSlices frame adds 0.1 * low to the velocity of the height
\* spring and 0.05 * low to the velocity of the radius spring exactly when
\* the mode is not OFF and low > 0.4; it adds nothing to the twist and chaos
\* springs and sets no value; then each of the four springs gets its target
\* and one update().
C23_KickOnBass ==
    [][(Due("ColorSlices") /\ renderPending' = Tail(renderPending)) =>
          LET kick    == audioMode # "OFF" /\ 10 * audioData.low > 4 * One
              targets == SpringTargets(inputData.hands.left, inputData.hands.right)
              Updated(n, impulse) ==
                  SpringUpdate([springs[n] EXCEPT !.velocity = @ + impulse,
                                                  !.target = targets[n]])
          IN  /\ springs'.stackHeight =
                    Updated("stackHeight", IF kick THEN audioData.low \div 10 ELSE 0)
              /\ springs'.radiusScale =
                    Updated("radiusScale", IF kick THEN audioData.low \div 20 ELSE 0)
              /\ springs'.twist = Updated("twist", 0)
              /\ springs'.chaos = Updated("chaos", 0)]_vars

\* C23 witness: in THEREMIN mode with low above 0.4, ColorSlices has been
\* called in this render frame after AudioManager, no hand was read, and the
\* height and radius springs move upwards from their rest targets.
C23_Witness ==
    /\ audioMode = "THEREMIN"
    /\ audioData.low > kickThreshold
    /\ handsRead["ColorSlices"] = {InitialInputData.hands}
    /\ springs.stackHeight.target = CONFIG.stackHeight * One
    /\ springs.stackHeight.velocity > 0
    /\ springs.radiusScale.velocity > 0
    /\ springs.stackHeight.value > CONFIG.stackHeight * One

\* C24: within one render frame every callback that reads the hands reads
\* the same hands object.
C24_ConsumersShareFrame ==
    Cardinality(UNION {handsRead[c] : c \in HandReaders}) <= 1

\* C25: the lighting and the palette choose the same mood for every face:
\* JOY with (#FF9AA2, #FFDAC1, 150, 1.2), SURPRISE with (#39FF14, #00FF41,
\* 300, 0.1), MOODY with (#001219, #0a9396, 200, 0.05), and the default
\* palette with (#00ffff, #ffaa00, 80, 0.5); at the end of a render frame
\* the lighting targets are those of the target palette.
C25_LightingFollowsPalette ==
    LET Mood(c1, c2, intensity, ambient) ==
            [targetColor1 |-> ColorOf(c1), targetColor2 |-> ColorOf(c2),
             targetIntensity |-> intensity * One, targetAmbient |-> ambient]
        moods == [JOY      |-> Mood(Hex(255, 154, 162), Hex(255, 218, 193), 150, 12000),
                  SURPRISE |-> Mood(Hex(57, 255, 20), Hex(0, 255, 65), 300, 1000),
                  MOODY    |-> Mood(Hex(0, 18, 25), Hex(10, 147, 150), 200, 500),
                  DEFAULT  |-> Mood(Hex(0, 255, 255), Hex(255, 170, 0), 80, 5000)]
    IN  /\ LightTargets(inputData.face) = moods[NextPalette(inputData.face)]
        /\ renderPending = <<>> => lights.target = moods[targetPalette]

\* C25 witness: a render frame has ended on a face with smile 0.4, mouthOpen
\* 0.2 and browDown 0.8: the palette is MOODY and the spots aim at 200.
C25_Witness ==
    /\ renderPending = <<>>
    /\ frame >= 1
    /\ inputData.face.present
    /\ inputData.face.smile = 4000
    /\ inputData.face.browDown = 8000
    /\ targetPalette = "MOODY"
    /\ lights.target.targetIntensity = 200 * One
    /\ lights.spot1.intensity > 80 * One

\* C26: an AudioManager frame retargets the oscillators only in THEREMIN
\* mode.  Left hand present: bass frequency 50 + ((y + 1) / 2) * 100, within
\* [50, 150] for y in [-1, 1], bass gain 0.5 * pinch.  Right hand present:
\* lead frequency 440 + 300 * x, within [140, 740] for x in [-1, 1], lead gain
\* 0.3, vibrato depth (1 - pinch) * 20.  All with time constant 0.05.  A
\* hand that is absent: only its gain is retargeted, to 0 with 0.1.
C26_ThereminTargets ==
    [][(Due("AudioManager") /\ renderPending' = Tail(renderPending)) =>
          LET left  == handsDataProxy.left
              right == handsDataProxy.right
          IN  /\ audioMode # "THEREMIN" => retargets' = retargets
              /\ audioMode = "THEREMIN" =>
                    /\ IF left.present
                       THEN /\ retargets'.bassFrequency =
                                  Retarget(50 * One + 50 * (left.y + One), 5)
                            /\ (left.y >= -One /\ left.y <= One) =>
                                  /\ retargets'.bassFrequency.target >= 50 * One
                                  /\ retargets'.bassFrequency.target <= 150 * One
                            /\ retargets'.bassGain = Retarget(left.pinch \div 2, 5)
                       ELSE /\ retargets'.bassFrequency = retargets.bassFrequency
                            /\ retargets'.bassGain = Retarget(0, 10)
                    /\ IF right.present
                       THEN /\ retargets'.leadFrequency =
                                  Retarget(440 * One + 300 * right.x, 5)
                            /\ (right.x >= -One /\ right.x <= One) =>
                                  /\ retargets'.leadFrequency.target >= 140 * One
                                  /\ retargets'.leadFrequency.target <= 740 * One
                            /\ retargets'.leadGain = Retarget(3000, 5)
                            /\ retargets'.vibratoDepth =
                                  Retarget(20 * (One - right.pinch), 5)
                       ELSE /\ retargets'.leadFrequency = retargets.leadFrequency
                            /\ retargets'.vibratoDepth = retargets.vibratoDepth
                            /\ retargets'.leadGain = Retarget(0, 10)]_vars

\* C26 witness: the left hand at y = 1 has sent the bass to 150 Hz, and the
\* lead, retargeted by a right hand before, was sent to gain 0 with 0.1.
C26_Witness ==
    /\ audioMode = "THEREMIN"
    /\ retargets.bassFrequency = Retarget(150 * One, 5)
    /\ retargets.leadFrequency.timeConstant = 5
    /\ retargets.leadGain = Retarget(0, 10)

\* C27: in every instance transform of a frame the X and Y scale are equal
\* and at least 0.1 and the Z scale is 1.0; with chaos at most 0.01 the X
\* and Z positions carry no jitter (X is the worm term, Z is 0), and with
\* chaos above 0.01 they carry (random - 0.5) * chaos.
C27_InstanceScale ==
    [][frame' = frame + 1 =>
          LET chaos   == springs'.chaos.value
              time    == FrameTime(frame)
              Worm(i) == Mul(Sin(time + MulRat(i * 4 * One, 1, 60)), 2 * chaos)
              m       == instanceMatrix'
              slices  == 0..(CONFIG.sliceCount - 1)
          IN  /\ \A i \in slices :
                    /\ m[i].scale[1] >= One \div 10
                    /\ m[i].scale[2] = m[i].scale[1]
                    /\ m[i].scale[3] = One
              /\ IF 100 * chaos > One
                 THEN \E rand \in Rands : \A i \in slices :
                         /\ m[i].position[1] = Mul(rand[1] - One \div 2, chaos) + Worm(i)
                         /\ m[i].position[3] = Mul(rand[2] - One \div 2, chaos)
                 ELSE \A i \in slices :
                         /\ m[i].position[1] = Worm(i)
                         /\ m[i].position[3] = 0]_vars

\* C27 witness: the radius spring is below 0 and the chaos above 0.01: the
\* scale of every instance is (0.1, 0.1, 1.0) and the Z positions are off 0.
C27_Witness ==
    /\ frame >= 1
    /\ springs.radiusScale.value < -(One \div 5)
    /\ springs.chaos.value > chaosThreshold
    /\ \A i \in 0..(CONFIG.sliceCount - 1) :
          /\ instanceMatrix[i].scale = <<One \div 10, One \div 10, One>>
          /\ instanceMatrix[i].position[3] # 0

=============================================================================
